---- MODULE Spec2Model ----
(***************************************************************************)
(* Model of the Pantry Party collaboration hub, src/server/                *)
(* websocket-server.js: the session map, the two client-registry maps,     *)
(* every command handler, the disconnect handler, the broadcaster and the  *)
(* periodic reaper.                                                        *)
(*                                                                         *)
(* Each handler runs to completion on the node event loop (no handler      *)
(* awaits anything but another synchronous handler), so one handler is one *)
(* action.  Date.now() is read as the single value `now` throughout one    *)
(* handler.  A JavaScript Map is a function whose DOMAIN is its key set.   *)
(* Time is counted in units of SESSION_TIMEOUT (4 hours).                  *)
(* Write-only stamps that no handler reads (reconnectedAt, disconnectedAt, *)
(* addedAt, a recipe's createdAt) are left out of the records.             *)
(*                                                                         *)
(* The browser's side, class WebSocketManager of src/unnamed/part_002, is  *)
(* modelled next to it: its socket, its connection flags, its reconnect    *)
(* timer and its message queue.  The two sides share no variable.          *)
(***************************************************************************)
EXTENDS Integers, Sequences, FiniteSets, TLC

\* ---------------------------------------------------------------- bounds
NumConns == 2          \* connection objects the server holds at once
MaxTime == 2           \* the clock stops advancing here
MaxIngredientUuid == 3 \* uuidv4() values drawn in SpecIngredients
MaxRecipeUuid == 2     \* uuidv4() values drawn in SpecRecipes
MaxUuid == 1           \* uuidv4() values drawn in Spec and SpecSteps

\* SESSION_TIMEOUT, in units of 4 hours
SESSION_TIMEOUT == 1

Conns == 1..NumConns
Users == {"U1", "U2"}
SessionIds == {"S"}
Contexts == {"dessert"}
RawNames == {"Flour", "flour", "salt"}
Titles == {"soup"}
VoteTypes == {"up", "down", "neutral"}
NoUser == "-"
NoSid == "-"

VARIABLES
  sessions,          \* sessions: sessionId -> session
  clients,           \* clients: websocket -> {userId, sessionId, username}
  userConnections,   \* userConnections: userId -> websocket
  readyState,        \* ws.readyState of every connection object
  now,               \* Date.now()
  nextUuid,          \* the next value uuidv4() returns
  sent,              \* the frames ws.send delivered during the last step
  op,                \* the handler that ran in the last step
  manager,           \* the fields of the browser's WebSocketManager
  transmitted,       \* the messages its socket took for the server, in order
  calls,             \* the number of send calls the manager has received
  clientOp           \* the manager method that ran in the last step

serverVars == <<sessions, clients, userConnections, readyState, now, nextUuid, sent, op>>

clientVars == <<manager, transmitted, calls, clientOp>>

vars == <<serverVars, clientVars>>

\* --------------------------------------------------------------- Map helpers
MapSet(m, k, v) == [x \in (DOMAIN m) \cup {k} |-> IF x = k THEN v ELSE m[x]]

MapDelete(m, k) == [x \in (DOMAIN m) \ {k} |-> m[x]]

EmptyMap == [x \in {} |-> 0]

\* String.prototype.toLowerCase on the names the clients send
ToLowerCase(n) == IF n = "Flour" THEN "flour" ELSE n

\* An outbound frame: JSON.stringify(message) written to connection `to`; id
\* is the id of the record an ingredients:added frame carries, 0 elsewhere
Frame(to, type, sid, user, text, snap) ==
  [to |-> to, type |-> type, sid |-> sid, user |-> user, text |-> text, snap |-> snap,
   id |-> 0]

\* The handler that ran: its command type, its connection, the session id it
\* looked up, the arguments of the command (for ingredients:add also the
\* ingredients the handler found, for recipes:vote the voter, the recipes and
\* the voter's vote the handler found), and whether that session was in the map with its last
\* activity more than SESSION_TIMEOUT ago
Op(type, c, sid, arg) ==
  [ type |-> type, conn |-> c, sid |-> sid, arg |-> arg,
    stale |-> sid \in DOMAIN sessions /\ sessions[sid].lastActivity + SESSION_TIMEOUT < now ]

\* find / findIndex by id over participants, ingredients or recipes: the first
\* index whose record has the id, 0 if none
FindIndexById(seq, id) ==
  IF \E i \in 1..Len(seq) : seq[i].id = id
  THEN CHOOSE i \in 1..Len(seq) : seq[i].id = id /\ \A j \in 1..(i - 1) : seq[j].id # id
  ELSE 0

Splice_None(seq, index) == seq

Splice_First(seq, index) == Tail(seq)

\* Array.prototype.splice(index, 1)
Splice(seq, index) == [i \in 1..(Len(seq) - 1) |-> IF i < index THEN seq[i] ELSE seq[i + 1]]

\* ------------------------------------------------------------ session store
createSession(S, sessionId, hostId, hostName) ==
  MapSet(S, sessionId,
    [ hostId |-> hostId,
      hostName |-> hostName,
      createdAt |-> now,
      lastActivity |-> now,
      allowRecipeGeneration |-> TRUE,
      participants |-> << [id |-> hostId, name |-> hostName, joinedAt |-> now,
                           isConnected |-> TRUE] >>,
      ingredients |-> << >>,
      blacklist |-> << >>,
      context |-> "",
      recipes |-> << >>,
      votes |-> EmptyMap ])

SessionExpired_Inclusive(session) == now - session.lastActivity >= SESSION_TIMEOUT

SessionExpired_Never(session) == FALSE

ReaperExpired_Inclusive(session) == now - session.lastActivity >= SESSION_TIMEOUT

\* getSession's test: Date.now() - session.lastActivity > SESSION_TIMEOUT
SessionExpired(session) == now - session.lastActivity > SESSION_TIMEOUT

\* getSession: found says whether a session is returned, store is the map afterwards
getSession(S, sessionId) ==
  IF sessionId \notin DOMAIN S THEN [found |-> FALSE, store |-> S]
  ELSE IF SessionExpired(S[sessionId])
       THEN [found |-> FALSE, store |-> MapDelete(S, sessionId)]
       ELSE [found |-> TRUE, store |-> S]

updateSessionActivity_Epoch(S, sessionId) ==
  IF sessionId \in DOMAIN S
  THEN [S EXCEPT ![sessionId].lastActivity = 0]
  ELSE S

updateSessionActivity_Skip(S, sessionId) == S

\* updateSessionActivity: session.lastActivity = Date.now()
updateSessionActivity(S, sessionId) ==
  IF sessionId \in DOMAIN S
  THEN [S EXCEPT ![sessionId].lastActivity = now]
  ELSE S

addParticipant_Fresh(S, sessionId, userId, username) ==
  createSession(S, sessionId, userId, username)

addParticipant_Restamp(S, sessionId, userId, username) ==
  LET g == getSession(S, sessionId) IN
  IF ~g.found THEN g.store
  ELSE
    LET ps == g.store[sessionId].participants
        i == FindIndexById(ps, userId)
        ps2 == IF i # 0
               THEN [ps EXCEPT ![i].isConnected = TRUE, ![i].joinedAt = now]
               ELSE Append(ps, [id |-> userId, name |-> username, joinedAt |-> now,
                                isConnected |-> TRUE])
    IN updateSessionActivity([g.store EXCEPT ![sessionId].participants = ps2], sessionId)

\* addParticipant: an id already present keeps its entry, a new one is appended
addParticipant(S, sessionId, userId, username) ==
  LET g == getSession(S, sessionId) IN
  IF ~g.found THEN g.store
  ELSE
    LET ps == g.store[sessionId].participants
        i == FindIndexById(ps, userId)
        ps2 == IF i # 0
               THEN [ps EXCEPT ![i].isConnected = TRUE]
               ELSE Append(ps, [id |-> userId, name |-> username, joinedAt |-> now,
                                isConnected |-> TRUE])
    IN updateSessionActivity([g.store EXCEPT ![sessionId].participants = ps2], sessionId)

removeParticipant_Splice(S, sessionId, userId) ==
  LET g == getSession(S, sessionId) IN
  IF ~g.found THEN g.store
  ELSE
    LET ps == g.store[sessionId].participants
    IN [g.store EXCEPT ![sessionId].participants = SelectSeq(ps, LAMBDA p : p.id # userId)]

\* removeParticipant: the participant is marked, never taken out
removeParticipant(S, sessionId, userId) ==
  LET g == getSession(S, sessionId) IN
  IF ~g.found THEN g.store
  ELSE
    LET ps == g.store[sessionId].participants
        i == FindIndexById(ps, userId)
    IN IF i # 0
       THEN [g.store EXCEPT ![sessionId].participants = [ps EXCEPT ![i].isConnected = FALSE]]
       ELSE g.store

broadcastToSession_Everyone(S, C, sessionId, type, user, text, snap, excludeUserId) ==
  LET g == getSession(S, sessionId) IN
  [ store |-> g.store,
    out |-> IF ~g.found THEN {}
            ELSE { Frame(ws, type, sessionId, user, text, snap) :
                     ws \in { w \in Conns : readyState[w] = "OPEN" } } ]

broadcastToSession_NoExclude(S, C, sessionId, type, user, text, snap, excludeUserId) ==
  LET g == getSession(S, sessionId) IN
  [ store |-> g.store,
    out |-> IF ~g.found THEN {}
            ELSE { Frame(ws, type, sessionId, user, text, snap) :
                     ws \in { w \in DOMAIN C : /\ C[w].sessionId = sessionId
                                                /\ readyState[w] = "OPEN" } } ]

\* broadcastToSession: store is the session map afterwards, out the frames written
broadcastToSession(S, C, sessionId, type, user, text, snap, excludeUserId) ==
  LET g == getSession(S, sessionId) IN
  [ store |-> g.store,
    out |-> IF ~g.found THEN {}
            ELSE { Frame(ws, type, sessionId, user, text, snap) :
                     ws \in { w \in DOMAIN C : /\ C[w].sessionId = sessionId
                                               /\ C[w].userId # excludeUserId
                                               /\ readyState[w] = "OPEN" } } ]

\* ------------------------------------------------------- connection endpoint
\* handleConnection: a connection object is accepted.  A closed slot stands for
\* a new object only when nothing in the registry still refers to the old one.
HandleConnection(ws) ==
  /\ readyState[ws] = "CLOSED"
  /\ UNCHANGED clientVars
  /\ ws \notin DOMAIN clients
  /\ \A u \in DOMAIN userConnections : userConnections[u] # ws
  /\ readyState' = [readyState EXCEPT ![ws] = "OPEN"]
  /\ sent' = { Frame(ws, "connection:established", NoSid, NoUser, "", << >>) }
  /\ op' = Op("connection", ws, NoSid, << >>)
  /\ UNCHANGED <<sessions, clients, userConnections, now, nextUuid>>

\* Frames that are not commands: text that is not JSON, the JSON value null,
\* an object without a type field, and an object with a type no case names
BadFrames == {"not json", "null", "{}", "{\"type\":\"ping\"}"}

\* JSON.parse(data.toString()) returns instead of throwing
JsonParses(data) == data # "not json"

\* const { type, data } = message returns instead of throwing
Destructures(data) == data # "null"

\* The text `${type}` yields in the default case of handleMessage
TypeText(data) == IF data = "{}" THEN "undefined" ELSE "ping"

\* The message callback for a frame of BadFrames: JSON.parse or the
\* destructuring of handleMessage throws and the catch block answers, or the
\* switch of handleMessage falls to its default case
HandleBadFrame(ws, data) ==
  /\ readyState[ws] = "OPEN"
  /\ UNCHANGED clientVars
  /\ op' = Op("bad frame", ws, NoSid, <<data>>)
  /\ sent' = { Frame(ws, "error", NoSid, NoUser,
                     IF JsonParses(data) /\ Destructures(data)
                     THEN "Unknown message type: " \o TypeText(data)
                     ELSE "Invalid message format",
                     << >>) }
  /\ UNCHANGED <<sessions, clients, userConnections, readyState, now, nextUuid>>

\* ---------------------------------------------------------- session commands
HandleSessionCreate(ws, sessionId, userId, username) ==
  LET g == getSession(sessions, sessionId)
      info == [userId |-> userId, sessionId |-> sessionId, username |-> username]
  IN
  /\ readyState[ws] = "OPEN"
  /\ UNCHANGED clientVars
  /\ op' = Op("session:create", ws, sessionId, <<userId>>)
  /\ UNCHANGED <<readyState, now, nextUuid>>
  /\ IF g.found
     THEN IF g.store[sessionId].hostId = userId
          THEN \* host rejoin
               LET S1 == addParticipant(g.store, sessionId, userId, username)
                   C1 == MapSet(clients, ws, info)
                   b == broadcastToSession(S1, C1, sessionId, "session:participant:joined",
                                           userId, "", << >>, userId)
               IN /\ clients' = C1
                  /\ userConnections' = MapSet(userConnections, userId, ws)
                  /\ sessions' = b.store
                  /\ sent' = { Frame(ws, "session:created", sessionId, NoUser, "",
                                     << S1[sessionId] >>) } \cup b.out
          ELSE /\ sessions' = g.store
               /\ sent' = { Frame(ws, "session:error", sessionId, NoUser,
                                  "Session already exists", << >>) }
               /\ UNCHANGED <<clients, userConnections>>
     ELSE LET S1 == createSession(g.store, sessionId, userId, username) IN
          /\ sessions' = S1
          /\ clients' = MapSet(clients, ws, info)
          /\ userConnections' = MapSet(userConnections, userId, ws)
          /\ sent' = { Frame(ws, "session:created", sessionId, NoUser, "",
                             << S1[sessionId] >>) }

HandleSessionJoin_EarlySnapshot(ws, sessionId, userId, username) ==
  LET g == getSession(sessions, sessionId)
      info == [userId |-> userId, sessionId |-> sessionId, username |-> username]
  IN
  /\ readyState[ws] = "OPEN"
  /\ UNCHANGED clientVars
  /\ op' = Op("session:join", ws, sessionId, <<userId>>)
  /\ UNCHANGED <<readyState, now, nextUuid>>
  /\ IF ~g.found
     THEN /\ sessions' = g.store
          /\ sent' = { Frame(ws, "session:error", sessionId, NoUser,
                             "Session not found or expired", << >>) }
          /\ UNCHANGED <<clients, userConnections>>
     ELSE IF userId \in DOMAIN userConnections /\ userConnections[userId] # ws
     THEN /\ sessions' = g.store
          /\ sent' = { Frame(ws, "session:error", sessionId, NoUser,
                             "User already connected from another client", << >>) }
          /\ UNCHANGED <<clients, userConnections>>
     ELSE LET S1 == addParticipant(g.store, sessionId, userId, username)
              C1 == MapSet(clients, ws, info)
              b == broadcastToSession(S1, C1, sessionId, "session:participant:joined",
                                      userId, "", << >>, userId)
          IN /\ clients' = C1
             /\ userConnections' = MapSet(userConnections, userId, ws)
             /\ sessions' = b.store
             /\ sent' = { Frame(ws, "session:joined", sessionId, NoUser, "",
                                << g.store[sessionId] >>) } \cup b.out

\* handleSessionJoin
HandleSessionJoin(ws, sessionId, userId, username) ==
  LET g == getSession(sessions, sessionId)
      info == [userId |-> userId, sessionId |-> sessionId, username |-> username]
  IN
  /\ readyState[ws] = "OPEN"
  /\ UNCHANGED clientVars
  /\ op' = Op("session:join", ws, sessionId, <<userId>>)
  /\ UNCHANGED <<readyState, now, nextUuid>>
  /\ IF ~g.found
     THEN /\ sessions' = g.store
          /\ sent' = { Frame(ws, "session:error", sessionId, NoUser,
                             "Session not found or expired", << >>) }
          /\ UNCHANGED <<clients, userConnections>>
     ELSE IF userId \in DOMAIN userConnections /\ userConnections[userId] # ws
     THEN /\ sessions' = g.store
          /\ sent' = { Frame(ws, "session:error", sessionId, NoUser,
                             "User already connected from another client", << >>) }
          /\ UNCHANGED <<clients, userConnections>>
     ELSE LET S1 == addParticipant(g.store, sessionId, userId, username)
              C1 == MapSet(clients, ws, info)
              b == broadcastToSession(S1, C1, sessionId, "session:participant:joined",
                                      userId, "", << >>, userId)
          IN /\ clients' = C1
             /\ userConnections' = MapSet(userConnections, userId, ws)
             /\ sessions' = b.store
             /\ sent' = { Frame(ws, "session:joined", sessionId, NoUser, "",
                                << S1[sessionId] >>) } \cup b.out

\* handleDisconnection with the clients.delete(ws) of line 852 left out
Disconnection_KeepsClient(ws) ==
  IF ws \in DOMAIN clients
  THEN LET userId == clients[ws].userId
           sessionId == clients[ws].sessionId
           S1 == removeParticipant(sessions, sessionId, userId)
           b == broadcastToSession(S1, clients, sessionId,
                                   "session:participant:disconnected", userId, "",
                                   << >>, userId)
       IN /\ clients' = clients
          /\ userConnections' = MapDelete(userConnections, userId)
          /\ sessions' = b.store
          /\ sent' = b.out
          /\ op' = Op("disconnect", ws, sessionId, <<readyState[ws]>>)
  ELSE /\ sent' = {}
       /\ op' = Op("disconnect", ws, NoSid, <<readyState[ws]>>)
       /\ UNCHANGED <<sessions, clients, userConnections>>

\* handleDisconnection: the body both the close and the error callback run.
\* The operation record keeps the socket state the callback found.
Disconnection(ws) ==
  IF ws \in DOMAIN clients
  THEN LET userId == clients[ws].userId
           sessionId == clients[ws].sessionId
           C1 == MapDelete(clients, ws)
           S1 == removeParticipant(sessions, sessionId, userId)
           b == broadcastToSession(S1, C1, sessionId,
                                   "session:participant:disconnected", userId, "",
                                   << >>, userId)
       IN /\ clients' = C1
          /\ userConnections' = MapDelete(userConnections, userId)
          /\ sessions' = b.store
          /\ sent' = b.out
          /\ op' = Op("disconnect", ws, sessionId, <<readyState[ws]>>)
  ELSE /\ sent' = {}
       /\ op' = Op("disconnect", ws, NoSid, <<readyState[ws]>>)
       /\ UNCHANGED <<sessions, clients, userConnections>>

\* ws.on("close"): the socket is closed, after an error callback or without one
HandleDisconnection(ws) ==
  /\ readyState[ws] \in {"OPEN", "CLOSING"}
  /\ UNCHANGED clientVars
  /\ readyState' = [readyState EXCEPT ![ws] = "CLOSED"]
  /\ UNCHANGED <<now, nextUuid>>
  /\ Disconnection(ws)

\* ws.on("error"): the transport failed; the socket takes no further message
\* and its close callback is still to come
HandleError(ws) ==
  /\ readyState[ws] = "OPEN"
  /\ UNCHANGED clientVars
  /\ readyState' = [readyState EXCEPT ![ws] = "CLOSING"]
  /\ UNCHANGED <<now, nextUuid>>
  /\ Disconnection(ws)

\* ------------------------------------------------------- ingredient commands
IngredientExists_CaseSensitive(session, name) ==
  \E i \in 1..Len(session.ingredients) : session.ingredients[i].name = name

IngredientExists_OrBlacklisted(session, name) ==
  \/ \E i \in 1..Len(session.ingredients) :
        ToLowerCase(session.ingredients[i].name) = ToLowerCase(name)
  \/ \E i \in 1..Len(session.blacklist) : session.blacklist[i] = ToLowerCase(name)

\* session.ingredients.some(ing => ing.name.toLowerCase() === ingredientName),
\* ingredientName being ingredient.name.toLowerCase()
IngredientExists(session, name) ==
  \E i \in 1..Len(session.ingredients) :
     ToLowerCase(session.ingredients[i].name) = ToLowerCase(name)

Dropped_Touch(store) ==
  /\ sessions' = [s \in DOMAIN store |-> [store[s] EXCEPT !.lastActivity = now]]
  /\ sent' = {}
  /\ UNCHANGED <<clients, userConnections, readyState, now, nextUuid>>

\* A handler that found no registration, or no session, returns without a frame
Dropped(store) ==
  /\ sessions' = store
  /\ sent' = {}
  /\ UNCHANGED <<clients, userConnections, readyState, now, nextUuid>>

HandleIngredientsAdd(ws, name, addedBy) ==
  /\ readyState[ws] = "OPEN"
  /\ UNCHANGED clientVars
  /\ IF ws \notin DOMAIN clients
     THEN op' = Op("ingredients:add", ws, NoSid, << >>) /\ Dropped(sessions)
     ELSE
     LET sessionId == clients[ws].sessionId
         g == getSession(sessions, sessionId)
         ingredientName == ToLowerCase(name)
     IN
     /\ op' = Op("ingredients:add", ws, sessionId,
                 << ingredientName,
                    IF g.found THEN g.store[sessionId].ingredients ELSE << >> >>)
     /\ IF ~g.found \/ IngredientExists(g.store[sessionId], name)
        THEN Dropped(g.store)
        ELSE LET newIngredient == [id |-> nextUuid, name |-> ingredientName,
                                   addedBy |-> addedBy]
                 S1 == [g.store EXCEPT ![sessionId].ingredients = Append(@, newIngredient)]
                 S2 == updateSessionActivity(S1, sessionId)
                 b == broadcastToSession(S2, clients, sessionId, "ingredients:added",
                                         NoUser, ingredientName, << >>, NoUser)
             IN /\ sessions' = b.store
                /\ sent' = { [f EXCEPT !.id = newIngredient.id] : f \in b.out }
                /\ nextUuid' = nextUuid + 1
                /\ UNCHANGED <<clients, userConnections, readyState, now>>

HandleIngredientsRemove(ws, ingredientId) ==
  /\ readyState[ws] = "OPEN"
  /\ UNCHANGED clientVars
  /\ IF ws \notin DOMAIN clients
     THEN op' = Op("ingredients:remove", ws, NoSid, << >>)
          /\ Dropped(sessions)
     ELSE
     LET sessionId == clients[ws].sessionId
         g == getSession(sessions, sessionId)
     IN
     /\ op' = Op("ingredients:remove", ws, sessionId, <<ingredientId>>)
     /\ IF ~g.found
        THEN Dropped(g.store)
        ELSE LET index == FindIndexById(g.store[sessionId].ingredients, ingredientId)
             IN IF index = 0
                THEN Dropped(g.store)
                ELSE LET removed == g.store[sessionId].ingredients[index]
                         S1 == [g.store EXCEPT ![sessionId].ingredients = Splice(@, index)]
                         S2 == updateSessionActivity(S1, sessionId)
                         b == broadcastToSession(S2, clients, sessionId,
                                                 "ingredients:removed", NoUser,
                                                 removed.name, << >>, NoUser)
                     IN /\ sessions' = b.store
                        /\ sent' = b.out
                        /\ UNCHANGED <<clients, userConnections, readyState, now, nextUuid>>

\* The ingredients left by an ingredients:blacklist of the lowercased name
BlacklistRemoval_Keep(ingredients, lowered, fromIngredients) == ingredients

BlacklistRemoval(ingredients, lowered, fromIngredients) ==
  IF fromIngredients
  THEN LET hits == { i \in 1..Len(ingredients) : ToLowerCase(ingredients[i].name) = lowered }
       IN IF hits # {}
          THEN Splice(ingredients, CHOOSE i \in hits : \A j \in hits : i <= j)
          ELSE ingredients
  ELSE ingredients

HandleIngredientsBlacklist(ws, ingredientName, fromIngredients) ==
  /\ readyState[ws] = "OPEN"
  /\ UNCHANGED clientVars
  /\ IF ws \notin DOMAIN clients
     THEN op' = Op("ingredients:blacklist", ws, NoSid, << >>)
          /\ Dropped(sessions)
     ELSE
     LET sessionId == clients[ws].sessionId
         g == getSession(sessions, sessionId)
         lowered == ToLowerCase(ingredientName)
     IN
     /\ op' = Op("ingredients:blacklist", ws, sessionId, <<lowered, fromIngredients>>)
     /\ IF ~g.found
        THEN Dropped(g.store)
        ELSE LET session == g.store[sessionId]
                 bl == IF \E i \in 1..Len(session.blacklist) : session.blacklist[i] = lowered
                       THEN session.blacklist
                       ELSE Append(session.blacklist, lowered)
                 ings == BlacklistRemoval(session.ingredients, lowered, fromIngredients)
                 S1 == [g.store EXCEPT ![sessionId].blacklist = bl,
                                       ![sessionId].ingredients = ings]
                 S2 == updateSessionActivity(S1, sessionId)
                 b == broadcastToSession(S2, clients, sessionId, "ingredients:blacklisted",
                                         NoUser, lowered, << >>, NoUser)
             IN /\ sessions' = b.store
                /\ sent' = b.out
                /\ UNCHANGED <<clients, userConnections, readyState, now, nextUuid>>

\* ----------------------------------------------------------- recipe commands
\* The tally of handleRecipesVote for one recipe: upvotes - downvotes, and the
\* voters (voterIds, an array without repetition, is kept as a set)
Tally(votes, recipeId) ==
  LET voters == { u \in DOMAIN votes : recipeId \in DOMAIN votes[u] }
      upvotes == Cardinality({ u \in voters : votes[u][recipeId] = "up" })
      downvotes == Cardinality({ u \in voters : votes[u][recipeId] = "down" })
  IN [votes |-> upvotes - downvotes, voterIds |-> voters]

RecomputeRecipes_Stale(recipes, votes) == recipes

\* session.recipes.forEach(recipe => ...): every recipe's tally is recomputed
RecomputeRecipes(recipes, votes) ==
  [i \in 1..Len(recipes) |->
     [recipes[i] EXCEPT !.votes = Tally(votes, recipes[i].id).votes,
                        !.voterIds = Tally(votes, recipes[i].id).voterIds]]

\* A recipe as a client sends it: a body only, or with an id, a tally and
\* voters of the client's own making
RecipeBody(title) == [title |-> title, id |-> 0, votes |-> 0, voterIds |-> {}]

ForgedRecipe(title) == [title |-> title, id |-> 1, votes |-> 5, voterIds |-> {"U1"}]

SpreadOver_PayloadWins(recipe, over) ==
  [k \in DOMAIN recipe \cup DOMAIN over |->
     IF k \in DOMAIN recipe THEN recipe[k] ELSE over[k]]

\* { ...recipe, k: v, ... }: the properties written after the spread win
SpreadOver(recipe, over) ==
  [k \in DOMAIN recipe \cup DOMAIN over |->
     IF k \in DOMAIN over THEN over[k] ELSE recipe[k]]

HandleRecipesAdd(ws, recipe) ==
  /\ readyState[ws] = "OPEN"
  /\ UNCHANGED clientVars
  /\ IF ws \notin DOMAIN clients
     THEN op' = Op("recipes:add", ws, NoSid, << >>) /\ Dropped(sessions)
     ELSE
     LET sessionId == clients[ws].sessionId
         g == getSession(sessions, sessionId)
     IN
     /\ op' = Op("recipes:add", ws, sessionId, <<recipe>>)
     /\ IF ~g.found
        THEN Dropped(g.store)
        ELSE LET newRecipe == SpreadOver(recipe, [id |-> nextUuid, votes |-> 0,
                                                  voterIds |-> {}])
                 S1 == [g.store EXCEPT ![sessionId].recipes = Append(@, newRecipe)]
                 S2 == updateSessionActivity(S1, sessionId)
                 b == broadcastToSession(S2, clients, sessionId, "recipes:added",
                                         NoUser, "", << >>, NoUser)
             IN /\ sessions' = b.store
                /\ sent' = b.out
                /\ nextUuid' = nextUuid + 1
                /\ UNCHANGED <<clients, userConnections, readyState, now>>

RecordVote_NoClear(votes, userId, recipeId, voteType) ==
  LET mine == IF userId \in DOMAIN votes THEN votes[userId] ELSE EmptyMap
  IN MapSet(votes, userId,
            IF voteType # "neutral" THEN MapSet(mine, recipeId, voteType) ELSE mine)

RecordVote_Nothing(votes, userId, recipeId, voteType) == votes

\* session.votes after the caller's vote: the previous vote on the recipe is
\* deleted, and the new one recorded unless it is neutral
RecordVote(votes, userId, recipeId, voteType) ==
  LET mine == IF userId \in DOMAIN votes THEN votes[userId] ELSE EmptyMap
      cleared == MapDelete(mine, recipeId)
  IN MapSet(votes, userId,
            IF voteType # "neutral" THEN MapSet(cleared, recipeId, voteType) ELSE cleared)

HandleRecipesVote(ws, recipeId, voteType) ==
  /\ readyState[ws] = "OPEN"
  /\ UNCHANGED clientVars
  /\ IF ws \notin DOMAIN clients
     THEN op' = Op("recipes:vote", ws, NoSid, << >>) /\ Dropped(sessions)
     ELSE
     LET sessionId == clients[ws].sessionId
         userId == clients[ws].userId
         g == getSession(sessions, sessionId)
     IN
     /\ op' = Op("recipes:vote", ws, sessionId,
                 << recipeId, voteType, userId,
                    IF g.found THEN g.store[sessionId].recipes ELSE << >>,
                    IF /\ g.found
                       /\ userId \in DOMAIN g.store[sessionId].votes
                       /\ recipeId \in DOMAIN g.store[sessionId].votes[userId]
                    THEN g.store[sessionId].votes[userId][recipeId]
                    ELSE "neutral" >>)
     /\ IF ~g.found
        THEN Dropped(g.store)
        ELSE LET votes == RecordVote(g.store[sessionId].votes, userId, recipeId, voteType)
                 S1 == [g.store EXCEPT ![sessionId].votes = votes,
                                       ![sessionId].recipes = RecomputeRecipes(@, votes)]
                 S2 == updateSessionActivity(S1, sessionId)
                 b == broadcastToSession(S2, clients, sessionId, "recipes:voted",
                                         userId, voteType, << >>, NoUser)
             IN /\ sessions' = b.store
                /\ sent' = b.out
                /\ UNCHANGED <<clients, userConnections, readyState, now, nextUuid>>

AwaitsInside_Yes == TRUE

\* Whether a handler body holds an await between its first read of the session
\* and its last write: none does, so a handler that has started runs to its
\* end before the event loop starts another callback
AwaitsInside == FALSE

\* No handler is part-way through its run, or handlers yield part-way
Idle == op.type # "recipes:vote:recorded" \/ AwaitsInside

\* handleRecipesVote up to the recording of the vote in session.votes
VoteRecord(ws, recipeId, voteType) ==
  /\ readyState[ws] = "OPEN"
  /\ UNCHANGED clientVars
  /\ IF ws \notin DOMAIN clients
     THEN op' = Op("recipes:vote", ws, NoSid, << >>) /\ Dropped(sessions)
     ELSE
     LET sessionId == clients[ws].sessionId
         userId == clients[ws].userId
         g == getSession(sessions, sessionId)
     IN
     IF ~g.found
     THEN /\ op' = Op("recipes:vote", ws, sessionId,
                      << recipeId, voteType, userId, << >>, "neutral" >>)
          /\ Dropped(g.store)
     ELSE /\ op' = Op("recipes:vote:recorded", ws, sessionId,
                      << recipeId, voteType, userId >>)
          /\ sessions' = [g.store EXCEPT ![sessionId].votes =
                            RecordVote(@, userId, recipeId, voteType)]
          /\ sent' = {}
          /\ UNCHANGED <<clients, userConnections, readyState, now, nextUuid>>

\* handleRecipesVote from the recomputation of the tallies to the broadcast
VoteRecompute ==
  /\ op.type = "recipes:vote:recorded"
  /\ UNCHANGED clientVars
  /\ op' = Op("recipes:vote", op.conn, op.sid,
              << op.arg[1], op.arg[2], op.arg[3],
                 IF op.sid \in DOMAIN sessions THEN sessions[op.sid].recipes ELSE << >>,
                 "neutral" >>)
  /\ UNCHANGED <<clients, userConnections, readyState, now, nextUuid>>
  /\ IF op.sid \notin DOMAIN sessions
     THEN sessions' = sessions /\ sent' = {}
     ELSE LET S1 == [sessions EXCEPT ![op.sid].recipes =
                       RecomputeRecipes(@, sessions[op.sid].votes)]
              S2 == updateSessionActivity(S1, op.sid)
              b == broadcastToSession(S2, clients, op.sid, "recipes:voted",
                                      op.arg[3], op.arg[2], << >>, NoUser)
          IN sessions' = b.store /\ sent' = b.out

HandleRecipesRemove(ws, recipeId) ==
  /\ readyState[ws] = "OPEN"
  /\ UNCHANGED clientVars
  /\ IF ws \notin DOMAIN clients
     THEN op' = Op("recipes:remove", ws, NoSid, << >>) /\ Dropped(sessions)
     ELSE
     LET sessionId == clients[ws].sessionId
         g == getSession(sessions, sessionId)
     IN
     /\ op' = Op("recipes:remove", ws, sessionId, <<recipeId>>)
     /\ IF ~g.found
        THEN Dropped(g.store)
        ELSE LET index == FindIndexById(g.store[sessionId].recipes, recipeId)
             IN IF index = 0
                THEN Dropped(g.store)
                ELSE LET S1 == [g.store EXCEPT ![sessionId].recipes = Splice(@, index)]
                         S2 == updateSessionActivity(S1, sessionId)
                         b == broadcastToSession(S2, clients, sessionId, "recipes:removed",
                                                 NoUser, "", << >>, NoUser)
                     IN /\ sessions' = b.store
                        /\ sent' = b.out
                        /\ UNCHANGED <<clients, userConnections, readyState, now, nextUuid>>

\* ------------------------------------------------------------ host commands
HostOnlyError_Silent(ws, sessionId, text) ==
  /\ sent' = {}
  /\ UNCHANGED <<clients, userConnections, readyState, now, nextUuid>>

\* The caller's frame when a host-only command comes from somebody else
HostOnlyError(ws, sessionId, text) ==
  /\ sent' = { Frame(ws, "error", sessionId, NoUser, text, << >>) }
  /\ UNCHANGED <<clients, userConnections, readyState, now, nextUuid>>

HandleContextUpdate(ws, context) ==
  /\ readyState[ws] = "OPEN"
  /\ UNCHANGED clientVars
  /\ IF ws \notin DOMAIN clients
     THEN op' = Op("context:update", ws, NoSid, << >>) /\ Dropped(sessions)
     ELSE
     LET sessionId == clients[ws].sessionId
         g == getSession(sessions, sessionId)
     IN
     /\ op' = Op("context:update", ws, sessionId, <<context>>)
     /\ IF ~g.found
        THEN Dropped(g.store)
        ELSE IF clients[ws].userId # g.store[sessionId].hostId
        THEN Dropped(g.store)
        ELSE LET S1 == [g.store EXCEPT ![sessionId].context = context]
                 S2 == updateSessionActivity(S1, sessionId)
                 b == broadcastToSession(S2, clients, sessionId, "context:updated",
                                         NoUser, context, << >>, clients[ws].userId)
             IN /\ sessions' = b.store
                /\ sent' = b.out
                /\ UNCHANGED <<clients, userConnections, readyState, now, nextUuid>>

FindNewHost_Unchecked(session, newHostId) ==
  IF FindIndexById(session.participants, newHostId) # 0
  THEN FindIndexById(session.participants, newHostId)
  ELSE 1

\* session.participants.find(p => p.id === newHostId) of handleHostTransfer
FindNewHost(session, newHostId) ==
  FindIndexById(session.participants, newHostId)

TransferHost_ResetPermissions(session, newHostId, newHost) ==
  [session EXCEPT !.hostId = newHostId,
                  !.hostName = session.participants[newHost].name,
                  !.allowRecipeGeneration = TRUE]

\* session.hostId = newHostId; session.hostName = newHost.name, newHost being
\* the index of the participant found
TransferHost(session, newHostId, newHost) ==
  [session EXCEPT !.hostId = newHostId,
                  !.hostName = session.participants[newHost].name]

HandleHostTransfer(ws, newHostId) ==
  /\ readyState[ws] = "OPEN"
  /\ UNCHANGED clientVars
  /\ IF ws \notin DOMAIN clients
     THEN op' = Op("host:transfer", ws, NoSid, << >>) /\ Dropped(sessions)
     ELSE
     LET sessionId == clients[ws].sessionId
         g == getSession(sessions, sessionId)
     IN
     /\ op' = Op("host:transfer", ws, sessionId, <<newHostId>>)
     /\ IF ~g.found
        THEN Dropped(g.store)
        ELSE IF g.store[sessionId].hostId # clients[ws].userId
        THEN sessions' = g.store
             /\ HostOnlyError(ws, sessionId, "Only host can transfer privileges")
        ELSE LET newHost == FindNewHost(g.store[sessionId], newHostId) IN
             IF newHost = 0
             THEN sessions' = g.store
                  /\ HostOnlyError(ws, sessionId, "New host not found in session")
             ELSE LET S1 == [g.store EXCEPT
                               ![sessionId] = TransferHost(@, newHostId, newHost)]
                      S2 == updateSessionActivity(S1, sessionId)
                      b == broadcastToSession(S2, clients, sessionId, "host:transferred",
                                              newHostId, "", << S2[sessionId] >>, NoUser)
                  IN /\ sessions' = b.store
                     /\ sent' = b.out
                     /\ UNCHANGED <<clients, userConnections, readyState, now, nextUuid>>

HandleHostPermissions_StaleSnapshot(ws, allowRecipeGeneration) ==
  /\ readyState[ws] = "OPEN"
  /\ UNCHANGED clientVars
  /\ IF ws \notin DOMAIN clients
     THEN op' = Op("host:permissions", ws, NoSid, << >>) /\ Dropped(sessions)
     ELSE
     LET sessionId == clients[ws].sessionId
         g == getSession(sessions, sessionId)
     IN
     /\ op' = Op("host:permissions", ws, sessionId, <<allowRecipeGeneration>>)
     /\ IF ~g.found
        THEN Dropped(g.store)
        ELSE IF g.store[sessionId].hostId # clients[ws].userId
        THEN sessions' = g.store
             /\ HostOnlyError(ws, sessionId, "Only host can change permissions")
        ELSE LET S1 == [g.store EXCEPT
                          ![sessionId].allowRecipeGeneration = allowRecipeGeneration]
                 S2 == updateSessionActivity(S1, sessionId)
                 b == broadcastToSession(S2, clients, sessionId,
                                         "host:permissions:updated", NoUser, "",
                                         << g.store[sessionId] >>, NoUser)
             IN /\ sessions' = b.store
                /\ sent' = b.out
                /\ UNCHANGED <<clients, userConnections, readyState, now, nextUuid>>

HandleHostPermissions(ws, allowRecipeGeneration) ==
  /\ readyState[ws] = "OPEN"
  /\ UNCHANGED clientVars
  /\ IF ws \notin DOMAIN clients
     THEN op' = Op("host:permissions", ws, NoSid, << >>) /\ Dropped(sessions)
     ELSE
     LET sessionId == clients[ws].sessionId
         g == getSession(sessions, sessionId)
     IN
     /\ op' = Op("host:permissions", ws, sessionId, <<allowRecipeGeneration>>)
     /\ IF ~g.found
        THEN Dropped(g.store)
        ELSE IF g.store[sessionId].hostId # clients[ws].userId
        THEN sessions' = g.store
             /\ HostOnlyError(ws, sessionId, "Only host can change permissions")
        ELSE LET S1 == [g.store EXCEPT
                          ![sessionId].allowRecipeGeneration = allowRecipeGeneration]
                 S2 == updateSessionActivity(S1, sessionId)
                 b == broadcastToSession(S2, clients, sessionId,
                                         "host:permissions:updated", NoUser, "",
                                         << S2[sessionId] >>, NoUser)
             IN /\ sessions' = b.store
                /\ sent' = b.out
                /\ UNCHANGED <<clients, userConnections, readyState, now, nextUuid>>

EndRefused_Never(session, clientInfo) == FALSE

\* The host test of handleSessionEnd: session.hostId !== clientInfo.userId
EndRefused(session, clientInfo) == session.hostId # clientInfo.userId

HandleSessionEnd(ws) ==
  /\ readyState[ws] = "OPEN"
  /\ UNCHANGED clientVars
  /\ IF ws \notin DOMAIN clients
     THEN op' = Op("session:end", ws, NoSid, << >>) /\ Dropped(sessions)
     ELSE
     LET sessionId == clients[ws].sessionId
         g == getSession(sessions, sessionId)
     IN
     /\ op' = Op("session:end", ws, sessionId, << >>)
     /\ IF ~g.found
        THEN Dropped(g.store)
        ELSE IF EndRefused(g.store[sessionId], clients[ws])
        THEN sessions' = g.store
             /\ HostOnlyError(ws, sessionId, "Only host can end session")
        ELSE LET b == broadcastToSession(g.store, clients, sessionId, "session:ended",
                                         NoUser, "Session has been ended by the host",
                                         << >>, NoUser)
                 inSession == { w \in DOMAIN clients : clients[w].sessionId = sessionId }
                 users == { clients[w].userId : w \in inSession }
             IN /\ sessions' = MapDelete(b.store, sessionId)
                /\ sent' = b.out
                /\ userConnections' = [u \in (DOMAIN userConnections) \ users |->
                                         userConnections[u]]
                /\ clients' = [w \in (DOMAIN clients) \ inSession |-> clients[w]]
                /\ readyState' = [w \in Conns |-> IF w \in inSession THEN "CLOSED"
                                                  ELSE readyState[w]]
                /\ UNCHANGED <<now, nextUuid>>

\* ----------------------------------------------------------------- reaper
\* cleanupExpiredSessions' own test: now - session.lastActivity > SESSION_TIMEOUT
ReaperExpired(session) == now - session.lastActivity > SESSION_TIMEOUT

Swept_Nothing(S) == S

\* The sessions a sweep leaves in the map
Swept(S) == [s \in { x \in DOMAIN S : ~ReaperExpired(S[x]) } |-> S[s]]

CleanupExpiredSessions ==
  LET expiredSessions == { s \in DOMAIN sessions : ReaperExpired(sessions[s]) }
      S1 == Swept(sessions)
  IN
  /\ UNCHANGED clientVars
  /\ sessions' = S1
  /\ sent' = UNION { broadcastToSession(S1, clients, s, "session:expired", NoUser, "",
                                        << >>, NoUser).out : s \in expiredSessions }
  /\ op' = Op("reaper", 0, NoSid, << expiredSessions >>)
  /\ UNCHANGED <<clients, userConnections, readyState, now, nextUuid>>

\* ------------------------------------------------------------------- time
Tick ==
  /\ now < MaxTime
  /\ UNCHANGED clientVars
  /\ now' = now + 1
  /\ sent' = {}
  /\ op' = Op("tick", 0, NoSid, << >>)
  /\ UNCHANGED <<sessions, clients, userConnections, readyState, nextUuid>>

\* ------------------------------------------------- the browser's manager
\* src/unnamed/part_002, class WebSocketManager: the socket it holds, its
\* connection flags, its reconnect timer and its queue of unsent messages.
\* manager.ws is the readyState of this.ws.  The k-th message passed to send
\* is the number k.  Listeners called through emit are other callers of send
\* and disconnect; every emit stands before or after the field updates of its
\* method, so their calls are steps of their own.
MaxMessages == 3       \* send calls over the life of the manager

\* this.maxReconnectAttempts
maxReconnectAttempts == 5

\* The close codes a close event carries: a clean close and an abnormal one
CloseCodes == {1000, 1006}

\* WebSocket.send of the browser: an open socket takes the message; a closing
\* or closed one discards it without an exception, and a connecting one throws
\* before taking it
wsSend(ws, wire, message) == IF ws = "OPEN" THEN Append(wire, message) ELSE wire

\* processMessageQueue with Array.pop in place of Array.shift
RECURSIVE processMessageQueue_Pop(_, _)
processMessageQueue_Pop(M, wire) ==
  IF Len(M.messageQueue) > 0 /\ M.isConnected
  THEN LET message == M.messageQueue[Len(M.messageQueue)]
       IN processMessageQueue_Pop(
            [M EXCEPT !.messageQueue = SubSeq(@, 1, Len(@) - 1)],
            wsSend(M.ws, wire, message))
  ELSE [manager |-> M, wire |-> wire]

\* processMessageQueue: while the queue is not empty and the manager is
\* connected, shift the first message and hand it to the socket
RECURSIVE processMessageQueue(_, _)
processMessageQueue(M, wire) ==
  IF Len(M.messageQueue) > 0 /\ M.isConnected
  THEN LET message == Head(M.messageQueue)
       IN processMessageQueue([M EXCEPT !.messageQueue = Tail(@)],
                              wsSend(M.ws, wire, message))
  ELSE [manager |-> M, wire |-> wire]

\* init: a new socket, connecting
init(M) == [M EXCEPT !.isConnecting = TRUE, !.ws = "CONNECTING"]

\* scheduleReconnect
scheduleReconnect(M) ==
  IF M.reconnectInterval
  THEN M
  ELSE [M EXCEPT !.reconnectAttempts = @ + 1, !.reconnectInterval = TRUE]

\* The record of the manager method that ran: its name and the number of
\* queued messages it handed to the socket
ClientOp(type, flushed) == [type |-> type, flushed |-> flushed]

\* The constructor: every field at its initial value, then init()
ManagerInit ==
  /\ manager = init([ws |-> "CLOSED", isConnected |-> FALSE, isConnecting |-> FALSE,
                     reconnectAttempts |-> 0, reconnectInterval |-> FALSE,
                     messageQueue |-> << >>])
  /\ transmitted = << >>
  /\ calls = 0
  /\ clientOp = ClientOp("constructor", 0)

\* send(type, data)
Send ==
  LET message == calls + 1
  IN
  /\ calls < MaxMessages
  /\ calls' = calls + 1
  /\ clientOp' = ClientOp("send", 0)
  /\ IF manager.isConnected /\ manager.ws = "OPEN"
     THEN /\ transmitted' = wsSend(manager.ws, transmitted, message)
          /\ manager' = manager
     ELSE /\ manager' = [manager EXCEPT !.messageQueue = Append(@, message)]
          /\ transmitted' = transmitted
  /\ UNCHANGED serverVars

\* this.ws.onopen: the connecting socket opens and handleOpen runs
HandleOpen ==
  LET M1 == [manager EXCEPT !.ws = "OPEN", !.isConnected = TRUE,
                            !.isConnecting = FALSE, !.reconnectAttempts = 0,
                            !.reconnectInterval = FALSE]
      p == processMessageQueue(M1, transmitted)
  IN
  /\ manager.ws = "CONNECTING"
  /\ manager' = p.manager
  /\ transmitted' = p.wire
  /\ clientOp' = ClientOp("open", Len(p.wire) - Len(transmitted))
  /\ UNCHANGED <<calls, serverVars>>

\* The closing handshake starts on the open socket: readyState is no longer
\* OPEN and no callback of the manager has run yet
SocketClosing ==
  /\ manager.ws = "OPEN"
  /\ manager' = [manager EXCEPT !.ws = "CLOSING"]
  /\ clientOp' = ClientOp("closing", 0)
  /\ UNCHANGED <<transmitted, calls, serverVars>>

\* this.ws.onclose: the socket is closed and handleClose runs
HandleClose(code) ==
  LET M1 == [manager EXCEPT !.ws = "CLOSED", !.isConnected = FALSE,
                            !.isConnecting = FALSE]
  IN
  /\ manager.ws \in {"CONNECTING", "OPEN", "CLOSING"}
  /\ manager' = IF code # 1000 /\ M1.reconnectAttempts < maxReconnectAttempts
                THEN scheduleReconnect(M1)
                ELSE M1
  /\ clientOp' = ClientOp("close", 0)
  /\ UNCHANGED <<transmitted, calls, serverVars>>

\* The callback scheduleReconnect hands to setTimeout
ReconnectTimer ==
  LET M1 == [manager EXCEPT !.reconnectInterval = FALSE]
  IN
  /\ manager.reconnectInterval
  /\ manager' = IF ~M1.isConnected /\ ~M1.isConnecting THEN init(M1) ELSE M1
  /\ clientOp' = ClientOp("reconnect", 0)
  /\ UNCHANGED <<transmitted, calls, serverVars>>

\* disconnect: ws.close(1000) starts the closing handshake of a socket that is
\* connecting or open and does nothing to one that is closing or closed
Disconnect ==
  /\ manager' = [manager EXCEPT
                   !.reconnectInterval = FALSE,
                   !.ws = IF @ \in {"CONNECTING", "OPEN"} THEN "CLOSING" ELSE @,
                   !.isConnected = FALSE,
                   !.isConnecting = FALSE,
                   !.reconnectAttempts = maxReconnectAttempts]
  /\ clientOp' = ClientOp("disconnect", 0)
  /\ UNCHANGED <<transmitted, calls, serverVars>>

Init ==
  /\ ManagerInit
  /\ sessions = EmptyMap
  /\ clients = EmptyMap
  /\ userConnections = EmptyMap
  /\ readyState = [c \in Conns |-> "CLOSED"]
  /\ now = 0
  /\ nextUuid = 1
  /\ sent = {}
  /\ op = Op("init", 0, NoSid, << >>)

\* ------------------------------------------------------------------ claims
\* The participants of a session, as a set of indices
PIdx(s) == 1..Len(sessions[s].participants)

\* C1: in every reachable state, the hostId of every session in the store is
\* the id of one of that session's participants.
C1_HostIsParticipant ==
  \A s \in DOMAIN sessions :
     \E i \in PIdx(s) : sessions[s].participants[i].id = sessions[s].hostId

\* A transfer has made the second participant host
C1_Witness ==
  /\ op.type = "host:transfer"
  /\ \E s \in DOMAIN sessions :
        /\ Len(sessions[s].participants) = 2
        /\ sessions[s].hostId = sessions[s].participants[2].id
        /\ \E f \in sent : f.type = "host:transferred"

\* C2: the registry holds at most one registered connection per userId, and
\* userConnections maps u to c exactly when clients maps c to an entry of u.
C2_RegistryInverse ==
  /\ \A c1, c2 \in DOMAIN clients :
        clients[c1].userId = clients[c2].userId => c1 = c2
  /\ \A u \in Users, c \in Conns :
        (u \in DOMAIN userConnections /\ userConnections[u] = c)
          <=> (c \in DOMAIN clients /\ clients[c].userId = u)

\* C3: a participant's isConnected is true exactly when the registry holds a
\* connection registered with the participant's id and the session's id.
C3_ConnectedMatchesRegistry ==
  \A s \in DOMAIN sessions : \A i \in PIdx(s) :
     sessions[s].participants[i].isConnected
       <=> \E c \in DOMAIN clients :
              /\ clients[c].userId = sessions[s].participants[i].id
              /\ clients[c].sessionId = s

\* The vote user u has recorded on recipe id r in session s, "neutral" if none
RecordedVote(s, u, r) ==
  IF u \in DOMAIN sessions[s].votes /\ r \in DOMAIN sessions[s].votes[u]
  THEN sessions[s].votes[u][r]
  ELSE "neutral"

\* C4: for every recipe R of a session, R.votes is the number of users whose
\* recorded vote on R.id is "up" minus the number whose recorded vote is
\* "down", and R.voterIds is the set of users with an up or down vote on R.id.
C4_TallyMatchesVotes ==
  \A s \in DOMAIN sessions : \A i \in 1..Len(sessions[s].recipes) :
     LET R == sessions[s].recipes[i] IN
     /\ R.votes = Cardinality({ u \in Users : RecordedVote(s, u, R.id) = "up" })
                  - Cardinality({ u \in Users : RecordedVote(s, u, R.id) = "down" })
     /\ R.voterIds = { u \in Users : RecordedVote(s, u, R.id) \in {"up", "down"} }

\* Two recipes, one voted down by both users, the other up by one of them
C4_Witness ==
  \E s \in DOMAIN sessions :
     /\ Len(sessions[s].recipes) = 2
     /\ \E i, j \in 1..2 :
           /\ sessions[s].recipes[i].votes = -2
           /\ sessions[s].recipes[j].votes = 1
           /\ Cardinality(sessions[s].recipes[j].voterIds) = 1

\* C5: no two ingredients of a session share an id, and no two share a name
\* compared case-insensitively.
C5_IngredientsUnique ==
  \A s \in DOMAIN sessions :
     \A i, j \in 1..Len(sessions[s].ingredients) :
        i # j =>
          /\ sessions[s].ingredients[i].id # sessions[s].ingredients[j].id
          /\ ToLowerCase(sessions[s].ingredients[i].name)
               # ToLowerCase(sessions[s].ingredients[j].name)

\* An ingredients:add of a name the session holds was dropped, two being held
C5_Witness ==
  /\ op.type = "ingredients:add"
  /\ sent = {}
  /\ \E s \in DOMAIN sessions :
        /\ Len(sessions[s].ingredients) = 2
        /\ \E i \in 1..2 : sessions[s].ingredients[i].name = op.arg[1]

\* An ingredients:blacklist command has committed: its connection was
\* registered and its session found
BlacklistCommitted ==
  /\ op.type = "ingredients:blacklist"
  /\ op.sid \in DOMAIN sessions
  /\ \E f \in sent : f.type = "ingredients:blacklisted"

C7_ReaperNotifies ==
  op.type = "reaper" =>
    \A s \in op.arg[1] : \A c \in DOMAIN clients :
       (clients[c].sessionId = s /\ readyState[c] = "OPEN")
         => \E f \in sent : f.to = c /\ f.type = "session:expired" /\ f.sid = s

\* Session s is in the map with its last activity more than the TTL ago
Stale(s) == s \in DOMAIN sessions /\ sessions[s].lastActivity + SESSION_TIMEOUT < now

\* After the step, id s names a session created in the step, holding nothing of
\* an earlier one
CreatedAfresh(s) ==
  /\ s \in DOMAIN sessions'
  /\ sessions'[s].createdAt = now'
  /\ sessions'[s].lastActivity = now'
  /\ Len(sessions'[s].participants) = 1
  /\ sessions'[s].ingredients = << >>
  /\ sessions'[s].blacklist = << >>
  /\ sessions'[s].recipes = << >>
  /\ sessions'[s].votes = EmptyMap
  /\ sessions'[s].context = ""

\* C8: no step changes a session whose lastActivity is older than the TTL or
\* delivers it in a snapshot; such a session stays as it is, or leaves the map
\* (a session created afresh may take its id), and every handler that looks
\* it up removes it from the map.
C8_ExpiredNeverServed ==
  [][ \A s \in SessionIds :
        Stale(s) =>
          /\ \/ s \notin DOMAIN sessions'
             \/ sessions'[s] = sessions[s]
             \/ CreatedAfresh(s)
          /\ op'.sid = s => (s \notin DOMAIN sessions' \/ CreatedAfresh(s))
          /\ \A f \in sent' : f.snap # << >> => f.snap[1] # sessions[s] ]_vars

\* A registered connection's ingredients:add found its session expired, and
\* the session is gone
C8_Witness ==
  /\ op.type = "ingredients:add"
  /\ op.stale
  /\ op.sid \notin DOMAIN sessions

\* C9: while the clock advances and the reaper's timer fires, a session whose
\* lastActivity stays at t is eventually removed from the map (t early enough
\* for the clock of the model to pass t + SESSION_TIMEOUT).
C9_IdleSessionRemoved ==
  \A s \in SessionIds : \A t \in 0..(MaxTime - SESSION_TIMEOUT - 1) :
     (s \in DOMAIN sessions /\ sessions[s].lastActivity = t)
       ~> (s \notin DOMAIN sessions \/ sessions[s].lastActivity # t)

\* A sweep of the reaper has removed a session
C9_Witness ==
  /\ op.type = "reaper"
  /\ op.arg[1] # {}
  /\ sessions = EmptyMap

\* C10: a session leaves the map only by a session:end from a connection
\* registered for it with its hostId, or by the reaper or a lookup when now
\* minus lastActivity is strictly greater than the TTL.
C10_RemovalOnlyByEndOrExpiry ==
  [][ \A s \in DOMAIN sessions :
        (s \notin DOMAIN sessions' \/ sessions'[s].createdAt # sessions[s].createdAt)
          => \/ /\ op'.type = "session:end"
                /\ op'.conn \in DOMAIN clients
                /\ clients[op'.conn].sessionId = s
                /\ clients[op'.conn].userId = sessions[s].hostId
             \/ /\ now - sessions[s].lastActivity > SESSION_TIMEOUT
                /\ op'.type = "reaper" \/ op'.sid = s ]_vars

\* The host's session:end has removed the session
C10_Witness ==
  /\ op.type = "session:end"
  /\ op.sid \notin DOMAIN sessions
  /\ ~op.stale
  /\ \E f \in sent : f.type = "session:ended" /\ f.sid = op.sid

\* The host-only commands
HostOnly == {"context:update", "host:transfer", "host:permissions", "session:end"}

\* The step ran a host-only command of a connection registered for a session
\* that is in the map and not expired, under a userId that is not its hostId
NonHostCall ==
  /\ op'.type \in HostOnly
  /\ op'.conn \in DOMAIN clients
  /\ clients[op'.conn].sessionId \in DOMAIN sessions
  /\ ~Stale(clients[op'.conn].sessionId)
  /\ clients[op'.conn].userId # sessions[clients[op'.conn].sessionId].hostId

\* C11: a host-only command from a connection whose registered userId is not
\* the hostId of its (unexpired) session changes no session, no registry entry
\* and no connection, and sends nothing to anybody else: the caller of
\* host:transfer, host:permissions or session:end gets exactly one error
\* frame, the caller of context:update gets nothing.
C11_NonHostRefused ==
  [][ NonHostCall =>
        /\ sessions' = sessions
        /\ clients' = clients
        /\ userConnections' = userConnections
        /\ readyState' = readyState
        /\ IF op'.type = "context:update"
           THEN sent' = {}
           ELSE /\ Cardinality(sent') = 1
                /\ \A f \in sent' : f.to = op'.conn /\ f.type = "error" ]_vars

\* A participant who is not the host asked to end the session of two open
\* connections, and was refused
C11_Witness ==
  /\ op.type = "session:end"
  /\ op.sid \in DOMAIN sessions
  /\ sent = { Frame(op.conn, "error", op.sid, NoUser, "Only host can end session", << >>) }
  /\ \E c \in DOMAIN clients :
        /\ c # op.conn
        /\ clients[c].sessionId = op.sid
        /\ clients[c].userId = sessions[op.sid].hostId
        /\ readyState[c] = "OPEN"

\* The step ran session:end for a connection registered, under the hostId, for
\* a session that is in the map and not expired
HostEndCall ==
  /\ op'.type = "session:end"
  /\ op'.conn \in DOMAIN clients
  /\ clients[op'.conn].sessionId \in DOMAIN sessions
  /\ ~Stale(clients[op'.conn].sessionId)
  /\ clients[op'.conn].userId = sessions[clients[op'.conn].sessionId].hostId

\* The connections registered for session s
Members(s) == { c \in DOMAIN clients : clients[c].sessionId = s }

\* C12 as claimed: the host's session:end sends session:ended to every open
\* connection registered for the session, removes the session, leaves no
\* clients entry for the session and no userConnections entry of a user or a
\* connection of the session, and closes every connection of the session; a
\* session:join for an id that is not in the map is answered with
\* session:error "Session not found or expired".
C12_EndPurgesSession ==
  [][ /\ HostEndCall =>
           LET s == clients[op'.conn].sessionId IN
           /\ \A c \in Members(s) :
                 readyState[c] = "OPEN" =>
                   \E f \in sent' : f.to = c /\ f.type = "session:ended" /\ f.sid = s
           /\ s \notin DOMAIN sessions'
           /\ \A c \in DOMAIN clients' : clients'[c].sessionId # s
           /\ \A u \in DOMAIN userConnections' :
                 /\ userConnections'[u] \notin Members(s)
                 /\ \A i \in PIdx(s) : sessions[s].participants[i].id # u
           /\ \A c \in Members(s) : readyState'[c] = "CLOSED"
      /\ (op'.type = "session:join" /\ op'.sid \notin DOMAIN sessions) =>
           sent' = { Frame(op'.conn, "session:error", op'.sid, NoUser,
                           "Session not found or expired", << >>) } ]_vars

\* Some open connection other than c is registered in clients with userId u
BoundElsewhere(u, c) ==
  \E w \in DOMAIN clients :
     w # c /\ readyState[w] = "OPEN" /\ clients[w].userId = u

\* C13 as claimed: a session:join for a session that is in the map and not
\* expired, carrying a userId under which some other open connection is
\* registered, is answered with session:error "User already connected from
\* another client" and changes neither the sessions nor the registry.
C13_DuplicateUserRefused ==
  [][ ( /\ op'.type = "session:join"
        /\ op'.sid \in DOMAIN sessions
        /\ ~Stale(op'.sid)
        /\ BoundElsewhere(op'.arg[1], op'.conn) ) =>
        /\ sent' = { Frame(op'.conn, "session:error", op'.sid, NoUser,
                           "User already connected from another client", << >>) }
        /\ sessions' = sessions
        /\ clients' = clients
        /\ userConnections' = userConnections ]_vars

\* A session:create has just been answered with session:created
CreateAnswered ==
  /\ op.type = "session:create"
  /\ \E f \in sent : f.to = op.conn /\ f.type = "session:created"

\* C14 as claimed: once a session:create of the host has been answered, no
\* other connection is registered for that session under the host's userId
\* (a connection that is registered still receives the session's broadcasts,
\* and its commands and its close still act on the session).
C14_PriorConnectionReplaced ==
  CreateAnswered =>
    \A c \in DOMAIN clients :
       c # op.conn => ~(clients[c].userId = op.arg[1] /\ clients[c].sessionId = op.sid)

\* The fields of a session that make up its document
Document(session) ==
  << session.ingredients, session.blacklist, session.context, session.recipes,
     session.votes, session.hostId >>

\* C15: a session:create for an id whose session is in the map and not
\* expired, carrying a userId other than its hostId, is answered with
\* session:error "Session already exists" and changes neither the sessions nor
\* the registry; carrying the hostId, it leaves the session in the map with
\* its ingredients, blacklist, context, recipes, votes and hostId unchanged.
C15_CreateOnExisting ==
  [][ ( /\ op'.type = "session:create"
        /\ op'.sid \in DOMAIN sessions
        /\ ~Stale(op'.sid) ) =>
        IF op'.arg[1] # sessions[op'.sid].hostId
        THEN /\ sent' = { Frame(op'.conn, "session:error", op'.sid, NoUser,
                                "Session already exists", << >>) }
             /\ sessions' = sessions
             /\ clients' = clients
             /\ userConnections' = userConnections
        ELSE /\ op'.sid \in DOMAIN sessions'
             /\ Document(sessions'[op'.sid]) = Document(sessions[op'.sid]) ]_vars

\* A session:create by somebody who is not the host has been refused, the
\* session holding an ingredient
C15_Witness ==
  /\ op.type = "session:create"
  /\ op.sid \in DOMAIN sessions
  /\ op.arg[1] # sessions[op.sid].hostId
  /\ sessions[op.sid].ingredients # << >>
  /\ sent = { Frame(op.conn, "session:error", op.sid, NoUser,
                    "Session already exists", << >>) }

\* The step ran command type t of a connection registered for a session that
\* is in the map and not expired
LiveCall(t) ==
  /\ op'.type = t
  /\ op'.conn \in DOMAIN clients
  /\ op'.sid = clients[op'.conn].sessionId
  /\ op'.sid \in DOMAIN sessions
  /\ ~Stale(op'.sid)

\* C16: an ingredients:add whose lowercased name is the lowercased name of an
\* ingredient the session holds changes no field of any session, lastActivity
\* included, and sends no ingredients:added frame to any connection.
C16_DuplicateAddDropped ==
  [][ ( /\ LiveCall("ingredients:add")
        /\ \E i \in 1..Len(sessions[op'.sid].ingredients) :
              ToLowerCase(sessions[op'.sid].ingredients[i].name) = op'.arg[1] ) =>
        /\ sessions' = sessions
        /\ \A f \in sent' : f.type # "ingredients:added" ]_vars

\* U2's connection added a name the session holds from U1, the session having
\* been idle for a while, and nothing was sent
C16_Witness ==
  /\ op.type = "ingredients:add"
  /\ op.conn \in DOMAIN clients
  /\ clients[op.conn].userId = "U2"
  /\ op.sid \in DOMAIN sessions
  /\ sessions[op.sid].lastActivity < now
  /\ sent = {}
  /\ \E i \in 1..Len(sessions[op.sid].ingredients) :
        /\ sessions[op.sid].ingredients[i].name = op.arg[1]
        /\ sessions[op.sid].ingredients[i].addedBy = "U1"

\* Some record of seq has the id
HasId(seq, id) == \E i \in 1..Len(seq) : seq[i].id = id

\* C17: an ingredients:remove or recipes:remove naming an id the session does
\* not hold leaves every session as it was and sends nothing; and after any
\* such remove the session does not hold the id, so that the same remove
\* applied again is that no-op.
C17_RemoveUnknownIsNoOp ==
  [][ /\ LiveCall("ingredients:remove") =>
           /\ ~HasId(sessions[op'.sid].ingredients, op'.arg[1]) =>
                 (sessions' = sessions /\ sent' = {})
           /\ ~HasId(sessions'[op'.sid].ingredients, op'.arg[1])
      /\ LiveCall("recipes:remove") =>
           /\ ~HasId(sessions[op'.sid].recipes, op'.arg[1]) =>
                 (sessions' = sessions /\ sent' = {})
           /\ ~HasId(sessions'[op'.sid].recipes, op'.arg[1]) ]_vars

\* A recipes:remove named the id of an ingredient, some time after the
\* session's last activity, and nothing was sent
C17_Witness ==
  /\ op.type = "recipes:remove"
  /\ op.sid \in DOMAIN sessions
  /\ ~op.stale
  /\ sessions[op.sid].lastActivity < now
  /\ HasId(sessions[op.sid].ingredients, op.arg[1])
  /\ sent = {}

\* The last step was an ingredients:add that appended its ingredient
AddCommitted ==
  /\ op.type = "ingredients:add"
  /\ op.sid \in DOMAIN sessions
  /\ \E f \in sent : f.type = "ingredients:added"

\* The id the server gave the ingredient of the last ingredients:add
AssignedId ==
  LET ings == sessions[op.sid].ingredients
  IN ings[CHOOSE i \in 1..Len(ings) : ings[i].name = op.arg[1]].id

\* C18: when an ingredients:add of a name the session did not hold is followed
\* directly by an ingredients:remove of the id the server assigned, the
\* ingredients are again the sequence the add found: same records, same order.
C18_AddThenRemoveRestores ==
  [][ ( /\ AddCommitted
        /\ LiveCall("ingredients:remove")
        /\ op'.sid = op.sid
        /\ op'.arg[1] = AssignedId ) =>
        sessions'[op.sid].ingredients = op.arg[2] ]_vars

\* The ingredient added last has been removed by the other member, the older
\* one remaining
C18_Witness ==
  /\ op.type = "ingredients:remove"
  /\ op.sid \in DOMAIN sessions
  /\ op.arg[1] = nextUuid - 1
  /\ \E f \in sent : f.type = "ingredients:removed"
  /\ Len(sessions[op.sid].ingredients) = 1
  /\ sessions[op.sid].ingredients[1].addedBy # clients[op.conn].userId

\* The record of seq with the id
ById(seq, id) == seq[CHOOSE i \in 1..Len(seq) : seq[i].id = id]

\* The last step recorded an up vote on a recipe the session held, and this
\* step is the same user's neutral vote on the same recipe
UpThenNeutral ==
  /\ op.type = "recipes:vote"
  /\ op.sid \in DOMAIN sessions
  /\ \E f \in sent : f.type = "recipes:voted"
  /\ op.arg[2] = "up"
  /\ HasId(op.arg[4], op.arg[1])
  /\ LiveCall("recipes:vote")
  /\ op'.sid = op.sid
  /\ op'.arg[1] = op.arg[1]
  /\ op'.arg[2] = "neutral"
  /\ op'.arg[3] = op.arg[3]

\* C19 as claimed: after recipes:vote up and then recipes:vote neutral by the
\* same user on the same recipe, the recipe's votes and voterIds are those it
\* had before the two votes, whatever the user's vote on it was before.
C19_UpNeutralRestores ==
  [][ UpThenNeutral =>
        LET before == ById(op.arg[4], op.arg[1])
            after == ById(sessions'[op.sid].recipes, op.arg[1])
        IN after.votes = before.votes /\ after.voterIds = before.voterIds ]_vars

\* C19 amended: after up and then neutral by the same user on the same recipe,
\* the recipe's votes and voterIds are those it had before the two votes when
\* the user had no up or down vote on it then; when the user had one, they
\* are the earlier values with that vote withdrawn.
C19_UpNeutralWithdraws ==
  [][ UpThenNeutral =>
        LET before == ById(op.arg[4], op.arg[1])
            after == ById(sessions'[op.sid].recipes, op.arg[1])
            u == op.arg[3]
            had == op.arg[5]
        IN /\ after.voterIds = before.voterIds \ {u}
           /\ after.votes = before.votes - (IF had = "up" THEN 1 ELSE 0)
                                         + (IF had = "down" THEN 1 ELSE 0)
           /\ had = "neutral" =>
                (after.votes = before.votes /\ after.voterIds = before.voterIds) ]_vars

\* A neutral vote has withdrawn the only vote on a recipe, an up vote, while
\* the other recipe keeps the other member's vote
C19_Witness ==
  /\ op.type = "recipes:vote"
  /\ op.arg[2] = "neutral"
  /\ op.sid \in DOMAIN sessions
  /\ HasId(op.arg[4], op.arg[1])
  /\ ById(op.arg[4], op.arg[1]).votes = 1
  /\ ById(op.arg[4], op.arg[1]).voterIds = {op.arg[3]}
  /\ HasId(sessions[op.sid].recipes, op.arg[1])
  /\ ById(sessions[op.sid].recipes, op.arg[1]).votes = 0
  /\ ById(sessions[op.sid].recipes, op.arg[1]).voterIds = {}
  /\ \E i \in 1..Len(sessions[op.sid].recipes) :
        sessions[op.sid].recipes[i].voterIds = Users \ {op.arg[3]}

\* C20: a host:transfer whose newHostId is the userId of the calling host
\* leaves the session in the map with hostId, hostName, participants,
\* ingredients, blacklist, context, recipes, votes and allowRecipeGeneration
\* unchanged.
C20_SelfTransferInvariant ==
  [][ ( /\ LiveCall("host:transfer")
        /\ clients[op'.conn].userId = sessions[op'.sid].hostId
        /\ op'.arg[1] = sessions[op'.sid].hostId ) =>
        /\ op'.sid \in DOMAIN sessions'
        /\ [sessions'[op'.sid] EXCEPT !.lastActivity = 0]
             = [sessions[op'.sid] EXCEPT !.lastActivity = 0] ]_vars

\* The second participant, host by an earlier transfer, transferred to
\* themselves, permissions being off and an ingredient on the list
C20_Witness ==
  /\ op.type = "host:transfer"
  /\ op.sid \in DOMAIN sessions
  /\ op.conn \in DOMAIN clients
  /\ op.arg[1] = clients[op.conn].userId
  /\ \E f \in sent : f.type = "host:transferred"
  /\ Len(sessions[op.sid].participants) = 2
  /\ sessions[op.sid].hostId = sessions[op.sid].participants[2].id
  /\ ~sessions[op.sid].allowRecipeGeneration
  /\ sessions[op.sid].ingredients # << >>

\* The event types the handler of a command type writes
EventsOf(t) ==
  CASE t = "connection" -> {"connection:established"}
    [] t = "session:create" -> {"session:created", "session:error",
                                "session:participant:joined"}
    [] t = "session:join" -> {"session:joined", "session:error",
                              "session:participant:joined"}
    [] t = "disconnect" -> {"session:participant:disconnected"}
    [] t = "ingredients:add" -> {"ingredients:added"}
    [] t = "ingredients:remove" -> {"ingredients:removed"}
    [] t = "ingredients:blacklist" -> {"ingredients:blacklisted"}
    [] t = "recipes:add" -> {"recipes:added"}
    [] t = "recipes:vote" -> {"recipes:voted"}
    [] t = "recipes:remove" -> {"recipes:removed"}
    [] t = "context:update" -> {"context:updated"}
    [] t = "host:transfer" -> {"host:transferred", "error"}
    [] t = "host:permissions" -> {"host:permissions:updated", "error"}
    [] t = "session:end" -> {"session:ended", "error"}
    [] t = "reaper" -> {"session:expired"}
    [] OTHER -> {}

VoteIn(x, u, r) ==
  IF u \in DOMAIN x.votes /\ r \in DOMAIN x.votes[u] THEN x.votes[u][r] ELSE "neutral"

\* Every recipe's tally and voters in map S are those its recorded votes give
TalliesMatch(S) ==
  \A s \in DOMAIN S : \A i \in 1..Len(S[s].recipes) :
     LET R == S[s].recipes[i] IN
     /\ R.votes = Cardinality({ u \in Users : VoteIn(S[s], u, R.id) = "up" })
                  - Cardinality({ u \in Users : VoteIn(S[s], u, R.id) = "down" })
     /\ R.voterIds = { u \in Users : VoteIn(S[s], u, R.id) \in {"up", "down"} }

OpenMembers(s) == { c \in Members(s) : readyState[c] = "OPEN" }

\* C23: an ingredients:add that appends its ingredient writes exactly one
\* ingredients:added frame, carrying the lowercased name and the id the server
\* assigned, to every open connection registered for the session, the
\* originator included, and no frame to any other connection.
C23_AddedToWholeSession ==
  [][ ( /\ LiveCall("ingredients:add")
        /\ Len(sessions'[op'.sid].ingredients) > Len(sessions[op'.sid].ingredients) ) =>
        LET s == op'.sid
            new == sessions'[s].ingredients[Len(sessions'[s].ingredients)]
        IN /\ { f.to : f \in sent' } = OpenMembers(s)
           /\ op'.conn \in OpenMembers(s)
           /\ Cardinality(sent') = Cardinality(OpenMembers(s))
           /\ new.id = nextUuid
           /\ new.name = ToLowerCase(new.name)
           /\ \A f \in sent' : /\ f.type = "ingredients:added"
                                /\ f.sid = s
                                /\ f.text = new.name
                                /\ f.id = new.id ]_vars

\* An ingredient was added in a session of one open member while the other
\* open connection is registered for another session
C23_Witness ==
  /\ op.type = "ingredients:add"
  /\ op.sid \in DOMAIN sessions
  /\ sent = { [Frame(op.conn, "ingredients:added", op.sid, NoUser, op.arg[1], << >>)
                 EXCEPT !.id = nextUuid - 1] }
  /\ \E c \in DOMAIN clients :
        c # op.conn /\ readyState[c] = "OPEN" /\ clients[c].sessionId # op.sid

\* The step ran command t of a connection registered, under the hostId, for a
\* session that is in the map and not expired
HostCall(t) ==
  /\ LiveCall(t)
  /\ clients[op'.conn].userId = sessions[op'.sid].hostId

\* The open connections registered for session s under another userId than u
OpenOthers(s, u) == { c \in OpenMembers(s) : clients[c].userId # u }

\* C24: a context:update of the host overwrites the session's context (and
\* nothing else of the document), and writes one context:updated frame with
\* the new value to every open connection registered for the session under
\* another userId, and no frame to a connection registered under the hostId.
C24_ContextToOthers ==
  [][ HostCall("context:update") =>
        LET s == op'.sid
            host == sessions[s].hostId
        IN /\ sessions'[s].context = op'.arg[1]
           /\ sessions' = [sessions EXCEPT ![s].context = op'.arg[1],
                                          ![s].lastActivity = sessions'[s].lastActivity]
           /\ <<clients, userConnections, readyState>>' = <<clients, userConnections, readyState>>
           /\ { f.to : f \in sent' } = OpenOthers(s, host)
           /\ Cardinality(sent') = Cardinality(OpenOthers(s, host))
           /\ \A f \in sent' : /\ f.type = "context:updated"
                                /\ f.sid = s
                                /\ f.text = op'.arg[1]
                                /\ clients[f.to].userId # host ]_vars

\* The host updated the context and the other member's connection got the event
C24_Witness ==
  /\ op.type = "context:update"
  /\ op.sid \in DOMAIN sessions
  /\ sessions[op.sid].context = op.arg[1]
  /\ \E f \in sent : /\ f.type = "context:updated"
                      /\ f.to # op.conn
                      /\ clients[f.to].userId # sessions[op.sid].hostId

\* The commands that name or presuppose an existing session
SessionCommandTypes ==
  { "session:join", "ingredients:add", "ingredients:remove", "ingredients:blacklist",
    "recipes:add", "recipes:vote", "recipes:remove", "context:update",
    "host:transfer", "host:permissions", "session:end" }

\* The step ran a command whose session is not in the map, or is in the map
\* with its last activity more than the TTL ago
DeadSessionCall ==
  /\ op'.type \in SessionCommandTypes
  /\ op'.sid # NoSid
  /\ op'.sid \notin DOMAIN sessions \/ Stale(op'.sid)

\* C25: a command on a session that is unknown, ended or expired is answered
\* with one session:error frame to the caller and nobody else, and changes no
\* registry entry and no session that is in the map afterwards.
C25_DeadSessionAnswered ==
  [][ DeadSessionCall =>
        /\ \E f \in sent' : /\ sent' = {f}
                             /\ f.to = op'.conn
                             /\ f.type = "session:error"
        /\ clients' = clients
        /\ userConnections' = userConnections
        /\ \A s \in DOMAIN sessions' : s \in DOMAIN sessions /\ sessions'[s] = sessions[s] ]_vars

\* C26: a frame that is not valid JSON, or is a JSON object without a type
\* field, is answered with one error frame "Invalid message format" to its
\* sender, changes no session and no registry entry, and leaves every
\* connection as open as it was.
C26_MalformedAnswered ==
  [][ (op'.type = "bad frame" /\ op'.arg[1] \in {"not json", "{}"}) =>
        /\ sent' = { Frame(op'.conn, "error", NoSid, NoUser, "Invalid message format", << >>) }
        /\ <<sessions, clients, userConnections, readyState>>' =
             <<sessions, clients, userConnections, readyState>> ]_vars

\* C27: when a connection registered for a session that is in the map and not
\* expired closes, its clients entry and the userConnections entry of its
\* userId are removed, its participant stays at its place with isConnected
\* false, nothing else of the session changes, and one
\* session:participant:disconnected frame with that userId goes to every open
\* connection registered for the session under another userId, and to nobody
\* else.
C27_CloseKeepsParticipant ==
  [][ LiveCall("disconnect") =>
        LET ws == op'.conn
            s == op'.sid
            u == clients[ws].userId
            i == FindIndexById(sessions[s].participants, u)
        IN /\ clients' = MapDelete(clients, ws)
           /\ u \notin DOMAIN userConnections'
           /\ i # 0
           /\ sessions' = [sessions EXCEPT ![s].participants[i].isConnected = FALSE]
           /\ { f.to : f \in sent' } = OpenOthers(s, u)
           /\ Cardinality(sent') = Cardinality(OpenOthers(s, u))
           /\ \A f \in sent' : /\ f.type = "session:participant:disconnected"
                                /\ f.sid = s
                                /\ f.user = u ]_vars

\* A member's connection closed; the member is still a participant, marked
\* disconnected, and the other member's connection was told
C27_Witness ==
  /\ op.type = "disconnect"
  /\ op.sid \in DOMAIN sessions
  /\ op.conn \notin DOMAIN clients
  /\ \E f \in sent : /\ f.type = "session:participant:disconnected"
                      /\ f.to # op.conn
                      /\ f.user \notin DOMAIN userConnections
                      /\ \E i \in PIdx(op.sid) :
                            /\ sessions[op.sid].participants[i].id = f.user
                            /\ ~sessions[op.sid].participants[i].isConnected
                            /\ sessions[op.sid].hostId # f.user

\* C28: a step leaves every session that was in the map unexpired, and still
\* is in the map, with participants of pairwise distinct ids; the participants
\* it had keep their positions, ids and joinedAt, and at most one is appended:
\* none when the step is a session:join or session:create carrying an id the
\* session already held.
C28_ParticipantsOnlyGrow ==
  [][ \A s \in DOMAIN sessions \cap DOMAIN sessions' :
        ~Stale(s) =>
          LET p == sessions[s].participants
              q == sessions'[s].participants
          IN /\ Len(q) \in {Len(p), Len(p) + 1}
             /\ \A i \in 1..Len(p) : q[i].id = p[i].id /\ q[i].joinedAt = p[i].joinedAt
             /\ \A i, j \in 1..Len(q) : q[i].id = q[j].id => i = j
             /\ ( /\ op'.type \in {"session:join", "session:create"}
                  /\ op'.sid = s
                  /\ HasId(p, op'.arg[1]) ) => Len(q) = Len(p) ]_vars

\* A participant who joined earlier, second in the sequence, has joined again
\* and is connected, with the joinedAt of the first join
C28_Witness ==
  /\ op.type = "session:join"
  /\ op.sid \in DOMAIN sessions
  /\ Len(sessions[op.sid].participants) = 2
  /\ sessions[op.sid].participants[2].id = op.arg[1]
  /\ sessions[op.sid].participants[2].isConnected
  /\ sessions[op.sid].participants[2].joinedAt < now
  /\ \E f \in sent : f.type = "session:joined"

\* The participant of session s whose id is u
ParticipantOf(s, u) ==
  sessions[s].participants[FindIndexById(sessions[s].participants, u)]

\* C29: a host:transfer of the host naming a participant P makes hostId P's id
\* and hostName P's participant name, changes nothing else of the session,
\* and writes one host:transferred frame to every open connection registered
\* for the session; naming an id that is no participant, it is answered with
\* one error frame and changes nothing.  The hostId of a session changes
\* in no other step, and every host-only command is decided on the hostId of
\* the moment: from a connection registered under it the command takes
\* effect, from any other it changes no session and no registry entry.
C29_TransferMovesAuthority ==
  [][ /\ HostCall("host:transfer") =>
           LET s == op'.sid
               P == op'.arg[1]
           IN IF HasId(sessions[s].participants, P)
              THEN /\ sessions' = [sessions EXCEPT
                                     ![s].hostId = P,
                                     ![s].hostName = ParticipantOf(s, P).name,
                                     ![s].lastActivity = sessions'[s].lastActivity]
                   /\ { f.to : f \in sent' } = OpenMembers(s)
                   /\ Cardinality(sent') = Cardinality(OpenMembers(s))
                   /\ \A f \in sent' : /\ f.type = "host:transferred"
                                        /\ f.user = P
                                        /\ f.snap = << sessions'[s] >>
              ELSE /\ sessions' = sessions
                   /\ \E f \in sent' : /\ sent' = {f}
                                        /\ f.to = op'.conn
                                        /\ f.type = "error"
                                        /\ f.text = "New host not found in session"
      /\ \A s \in DOMAIN sessions \cap DOMAIN sessions' :
           (~Stale(s) /\ sessions'[s].hostId # sessions[s].hostId) =>
              (HostCall("host:transfer") /\ op'.sid = s)
      /\ HostCall("context:update") => sessions'[op'.sid].context = op'.arg[1]
      /\ HostCall("host:permissions") =>
           sessions'[op'.sid].allowRecipeGeneration = op'.arg[1]
      /\ HostCall("session:end") => op'.sid \notin DOMAIN sessions'
      /\ NonHostCall =>
           <<sessions, clients, userConnections>>' = <<sessions, clients, userConnections>>
    ]_vars

\* The participant who joined second, made host by a transfer, has changed the
\* permissions from the connection registered under that id
C29_Witness ==
  /\ op.type = "host:permissions"
  /\ op.sid \in DOMAIN sessions
  /\ op.conn \in DOMAIN clients
  /\ Len(sessions[op.sid].participants) = 2
  /\ sessions[op.sid].hostId = sessions[op.sid].participants[2].id
  /\ sessions[op.sid].hostName = sessions[op.sid].participants[2].name
  /\ clients[op.conn].userId = sessions[op.sid].hostId
  /\ sessions[op.sid].allowRecipeGeneration = op.arg[1]
  /\ ~op.arg[1]
  /\ \E f \in sent : f.type = "host:permissions:updated" /\ f.to # op.conn

\* The step ran a session:join for a session that is in the map and not
\* expired, carrying a userId that is none of its participants
NewcomerJoin ==
  /\ op'.type = "session:join"
  /\ op'.sid \in DOMAIN sessions
  /\ ~Stale(op'.sid)
  /\ ~HasId(sessions[op'.sid].participants, op'.arg[1])

\* What a join that is carried out does: one participant appended, connected,
\* the connection registered under the userId, one session:joined frame with
\* the session as it now is to the joiner, and one session:participant:joined
\* frame to every open connection registered for the session under another
\* userId
JoinCarriedOut ==
  LET s == op'.sid
      u == op'.arg[1]
      ws == op'.conn
      q == sessions'[s].participants
      others == { c \in DOMAIN clients' : /\ clients'[c].sessionId = s
                                           /\ clients'[c].userId # u
                                           /\ readyState[c] = "OPEN" }
  IN /\ Len(q) = Len(sessions[s].participants) + 1
     /\ SubSeq(q, 1, Len(q) - 1) = sessions[s].participants
     /\ q[Len(q)].id = u
     /\ q[Len(q)].isConnected
     /\ clients' = MapSet(clients, ws, [userId |-> u, sessionId |-> s,
                                        username |-> q[Len(q)].name])
     /\ userConnections' = MapSet(userConnections, u, ws)
     /\ { f.to : f \in sent' } = others \cup {ws}
     /\ Cardinality(sent') = Cardinality(others) + 1
     /\ \A f \in sent' :
           IF f.to = ws
           THEN /\ f.type = "session:joined"
                /\ f.snap = << sessions'[s] >>
                /\ HasId(f.snap[1].participants, u)
           ELSE /\ f.type = "session:participant:joined"
                /\ f.sid = s
                /\ f.user = u

\* A session:create for an id that names no session, or an expired one, makes
\* the caller host and only participant, connected, of a new session
FirstCreate ==
  ( /\ op'.type = "session:create"
    /\ op'.sid \notin DOMAIN sessions \/ Stale(op'.sid) ) =>
      LET s == op'.sid
          u == op'.arg[1]
      IN /\ s \in DOMAIN sessions'
         /\ sessions'[s].hostId = u
         /\ Len(sessions'[s].participants) = 1
         /\ sessions'[s].participants[1].id = u
         /\ sessions'[s].participants[1].isConnected
         /\ sessions'[s].participants[1].joinedAt = now
         /\ op'.conn \in DOMAIN clients'
         /\ clients'[op'.conn].userId = u
         /\ clients'[op'.conn].sessionId = s

\* userConnections maps userId u to a connection other than c
HeldByAnother(u, c) == u \in DOMAIN userConnections /\ userConnections[u] # c

\* C30 as stated: every session:join for an existing session by a userId that
\* is none of its participants is carried out, and a first session:create
\* yields a session whose host and only participant is the caller, connected.
C30_NewcomerJoins ==
  [][ (NewcomerJoin => JoinCarriedOut) /\ FirstCreate ]_vars

\* C30, amended: such a join is carried out unless userConnections binds the
\* userId to another connection, in which case it is answered with one
\* session:error frame and changes neither the sessions nor the registry; a
\* first session:create yields a session whose host and only participant is
\* the caller, connected.
C30_NewcomerJoinsUnlessBound ==
  [][ /\ NewcomerJoin =>
           IF HeldByAnother(op'.arg[1], op'.conn)
           THEN /\ sent' = { Frame(op'.conn, "session:error", op'.sid, NoUser,
                                    "User already connected from another client", << >>) }
                /\ <<sessions, clients, userConnections>>' =
                     <<sessions, clients, userConnections>>
           ELSE JoinCarriedOut
      /\ FirstCreate ]_vars

\* A second participant has joined: the joiner holds the snapshot with both
\* participants and the host's connection has been told
C30_Witness ==
  /\ op.type = "session:join"
  /\ op.sid \in DOMAIN sessions
  /\ Len(sessions[op.sid].participants) = 2
  /\ sessions[op.sid].participants[2].id = op.arg[1]
  /\ \E f, h \in sent :
        /\ f.to = op.conn /\ f.type = "session:joined"
        /\ Len(f.snap[1].participants) = 2
        /\ h.to # op.conn /\ h.type = "session:participant:joined" /\ h.user = op.arg[1]
        /\ clients[h.to].userId = sessions[op.sid].hostId

\* C31: a recipes:add that appends its recipe appends it with votes 0, no
\* voterIds and the id the server drew, whatever id, votes and voterIds the
\* payload held; the id is none the server drew before, and after every step
\* the recipes of a session have pairwise distinct ids, all drawn by the
\* server.
C31_RecipeIdsFresh ==
  [][ /\ LiveCall("recipes:add") =>
           LET s == op'.sid
               q == sessions'[s].recipes
               new == q[Len(q)]
           IN /\ Len(q) = Len(sessions[s].recipes) + 1
              /\ SubSeq(q, 1, Len(q) - 1) = sessions[s].recipes
              /\ new.id = nextUuid
              /\ new.id \notin 1..(nextUuid - 1)
              /\ new.id \in 1..(nextUuid' - 1)
              /\ new.votes = 0
              /\ new.voterIds = {}
              /\ new.title = op'.arg[1].title
      /\ \A s \in DOMAIN sessions' :
           LET q == sessions'[s].recipes
           IN \A i, j \in 1..Len(q) :
                /\ q[i].id \in 1..(nextUuid' - 1)
                /\ q[i].id = q[j].id => i = j ]_vars

\* A recipe was added from a payload carrying the id of the recipe already in
\* the session, five votes and a voter
C31_Witness ==
  /\ op.type = "recipes:add"
  /\ op.sid \in DOMAIN sessions
  /\ op.arg # << >>
  /\ op.arg[1].votes = 5
  /\ op.arg[1].voterIds # {}
  /\ Len(sessions[op.sid].recipes) = 2
  /\ sessions[op.sid].recipes[1].id = op.arg[1].id
  /\ sessions[op.sid].recipes[2].id # op.arg[1].id
  /\ sessions[op.sid].recipes[2].votes = 0

\* C32: from one state to the next the lastActivity of a session id that stays
\* in the map does not decrease, and in every state a session's lastActivity
\* is at least its createdAt.
C32_LastActivityMonotone ==
  [][ /\ \A s \in DOMAIN sessions \cap DOMAIN sessions' :
           sessions'[s].lastActivity >= sessions[s].lastActivity
      /\ \A s \in DOMAIN sessions' :
           sessions'[s].lastActivity >= sessions'[s].createdAt ]_vars

\* A command has moved the lastActivity of a session past its createdAt
C32_Witness ==
  /\ op.type = "context:update"
  /\ op.sid \in DOMAIN sessions
  /\ sessions[op.sid].context = op.arg[1]
  /\ sessions[op.sid].lastActivity = now
  /\ sessions[op.sid].lastActivity > sessions[op.sid].createdAt

\* A session record with its lastActivity left out of account
Untimed(session) == [session EXCEPT !.lastActivity = 0]

\* C33 as stated: a step that changes a field of a session other than
\* lastActivity leaves its lastActivity at the current time, a step that
\* changes no such field leaves lastActivity as it was, and a session carried
\* by a frame of the step has the lastActivity of the current time.
C33_ChangesTouchActivity ==
  [][ /\ \A s \in DOMAIN sessions \cap DOMAIN sessions' :
           ~Stale(s) =>
             IF Untimed(sessions'[s]) # Untimed(sessions[s])
             THEN sessions'[s].lastActivity = now'
             ELSE sessions'[s].lastActivity = sessions[s].lastActivity
      /\ \A f \in sent' : f.snap # << >> => f.snap[1].lastActivity = now' ]_vars

\* C33, amended: a step that changes a session is a command on that session
\* and leaves its lastActivity at the current time, or is the close of a
\* connection, which leaves lastActivity as it was whether or not it changes
\* the participant's isConnected; lastActivity changes in no other way.  A
\* command that passes its checks (a host's context:update or
\* host:permissions, a host rejoin, a blacklist, a vote) leaves lastActivity
\* at the current time whether or not it changes another field, a host-only
\* command of another user leaves the sessions as they were, and a session
\* carried by a frame of the step has the lastActivity of the current time.
C33_CommandsTouchActivity ==
  [][ /\ \A s \in DOMAIN sessions \cap DOMAIN sessions' :
           ~Stale(s) =>
             /\ op'.type = "disconnect" =>
                  sessions'[s].lastActivity = sessions[s].lastActivity
             /\ (op'.type # "disconnect" /\ sessions'[s] # sessions[s]) =>
                  /\ sessions'[s].lastActivity = now'
                  /\ op'.sid = s
                  /\ op'.type \in SessionCommandTypes \cup {"session:create"}
      /\ ( \/ HostCall("context:update")
           \/ HostCall("host:permissions")
           \/ LiveCall("ingredients:blacklist")
           \/ LiveCall("recipes:vote")
           \/ ( /\ op'.type = "session:create"
                /\ op'.sid \in DOMAIN sessions
                /\ ~Stale(op'.sid)
                /\ op'.arg[1] = sessions[op'.sid].hostId ) ) =>
           sessions'[op'.sid].lastActivity = now'
      /\ NonHostCall => sessions' = sessions
      /\ \A f \in sent' : f.snap # << >> => f.snap[1].lastActivity = now' ]_vars

\* A connection has closed after the clock moved on: its participant is
\* marked disconnected and the session's lastActivity is still the earlier one
C33_Witness ==
  /\ op.type = "disconnect"
  /\ op.sid \in DOMAIN sessions
  /\ sessions[op.sid].lastActivity < now
  /\ \E i \in PIdx(op.sid) : ~sessions[op.sid].participants[i].isConnected
  /\ \A i \in PIdx(op.sid) :
        sessions[op.sid].participants[i].isConnected =>
          \E c \in DOMAIN clients : clients[c].userId = sessions[op.sid].participants[i].id

\* Connection ws has an entry in clients, or is the value of one in
\* userConnections
InRegistry(C, U, ws) == ws \in DOMAIN C \/ \E u \in DOMAIN U : U[u] = ws

\* C34: a connection enters the registry only in its own session:create or
\* session:join, in the step that answers it with session:created or
\* session:joined; and any other command of a connection without a clients
\* entry changes no session, no registry entry and no connection, and writes
\* no frame.
C34_UnregisteredIgnored ==
  [][ /\ \A ws \in Conns :
           ( /\ InRegistry(clients', userConnections', ws)
             /\ ~InRegistry(clients, userConnections, ws) ) =>
               /\ op'.type \in {"session:create", "session:join"}
               /\ op'.conn = ws
               /\ \E f \in sent' : /\ f.to = ws
                                    /\ f.type \in {"session:created", "session:joined"}
      /\ ( /\ op'.type \in SessionCommandTypes \ {"session:join"}
           /\ op'.conn \notin DOMAIN clients ) =>
             /\ sent' = {}
             /\ <<sessions, clients, userConnections, readyState>>' =
                  <<sessions, clients, userConnections, readyState>> ]_vars

\* An open connection without a registry entry has sent session:end while a
\* session was in the map, and the session is still there
C34_Witness ==
  /\ op.type = "session:end"
  /\ readyState[op.conn] = "OPEN"
  /\ ~InRegistry(clients, userConnections, op.conn)
  /\ DOMAIN sessions # {}
  /\ sent = {}

\* C35: in every reachable state, every clients entry whose sessionId names a
\* session in the map holds the id of one of that session's participants.
C35_RegisteredAreParticipants ==
  \A c \in DOMAIN clients :
     clients[c].sessionId \in DOMAIN sessions =>
       HasId(sessions[clients[c].sessionId].participants, clients[c].userId)

\* Name n is on the blacklist of the session
OnBlacklist(session, n) == \E i \in 1..Len(session.blacklist) : session.blacklist[i] = n

\* C36 as stated: an ingredients:add appends no ingredient whose name is on
\* the session's blacklist.
C36_AddRespectsBlacklist ==
  [][ LiveCall("ingredients:add") =>
        \A i \in 1..Len(sessions'[op'.sid].ingredients) :
           i > Len(sessions[op'.sid].ingredients) =>
             ~OnBlacklist(sessions[op'.sid], sessions'[op'.sid].ingredients[i].name) ]_vars

\* C36, amended: an ingredients:add is decided on the ingredients alone: when
\* no ingredient has the lowercased name it appends one of that name, on the
\* blacklist or not, and otherwise it appends nothing; the blacklist is left
\* as it was.
C36_AddIgnoresBlacklist ==
  [][ LiveCall("ingredients:add") =>
        LET s == op'.sid
            p == sessions[s].ingredients
            q == sessions'[s].ingredients
        IN /\ sessions'[s].blacklist = sessions[s].blacklist
           /\ IF \E i \in 1..Len(p) : ToLowerCase(p[i].name) = op'.arg[1]
              THEN q = p
              ELSE /\ Len(q) = Len(p) + 1
                   /\ SubSeq(q, 1, Len(p)) = p
                   /\ q[Len(q)].name = op'.arg[1] ]_vars

\* A name on the blacklist has been added: it is the name of the ingredient
\* just appended, not the first the session was given
C36_Witness ==
  /\ op.type = "ingredients:add"
  /\ op.sid \in DOMAIN sessions
  /\ OnBlacklist(sessions[op.sid], op.arg[1])
  /\ Len(sessions[op.sid].ingredients) = Len(op.arg[2]) + 1
  /\ sessions[op.sid].ingredients[Len(sessions[op.sid].ingredients)].name = op.arg[1]
  /\ sessions[op.sid].ingredients[Len(sessions[op.sid].ingredients)].id > 1
  /\ \E f \in sent : f.type = "ingredients:added" /\ f.text = op.arg[1]

\* C37 as stated: in every reachable state, every recipeId under which the
\* votes map of a session holds a vote is the id of one of its recipes.
C37_VotesNameRecipes ==
  \A s \in DOMAIN sessions :
     \A u \in DOMAIN sessions[s].votes :
        \A r \in DOMAIN sessions[s].votes[u] : HasId(sessions[s].recipes, r)

\* C37, amended: a recipes:vote leaves the caller's vote under the recipeId it
\* names, one of the session's recipes or not (no entry when it is neutral),
\* and touches no other entry of the votes map; a recipes:remove leaves the
\* votes map as it was; after every step each recipe's tally and voters are
\* those the votes under its own id give.
C37_VotesKeptUnderAnyId ==
  [][ /\ LiveCall("recipes:vote") =>
           LET s == op'.sid
               r == op'.arg[1]
               u == op'.arg[3]
               v == sessions'[s].votes
               w == sessions[s].votes
           IN /\ u \in DOMAIN v
              /\ IF op'.arg[2] = "neutral"
                 THEN r \notin DOMAIN v[u]
                 ELSE r \in DOMAIN v[u] /\ v[u][r] = op'.arg[2]
              /\ \A x \in DOMAIN w : \A y \in DOMAIN w[x] :
                    (x # u \/ y # r) => (x \in DOMAIN v /\ y \in DOMAIN v[x] /\ v[x][y] = w[x][y])
              /\ \A x \in DOMAIN v : \A y \in DOMAIN v[x] :
                    (x # u \/ y # r) => (x \in DOMAIN w /\ y \in DOMAIN w[x])
      /\ LiveCall("recipes:remove") =>
           sessions'[op'.sid].votes = sessions[op'.sid].votes
      /\ TalliesMatch(sessions') ]_vars

\* A recipe that held a vote has been removed and the vote is still in the
\* votes map
C37_Witness ==
  /\ op.type = "recipes:remove"
  /\ op.sid \in DOMAIN sessions
  /\ ~HasId(sessions[op.sid].recipes, op.arg[1])
  /\ \E f \in sent : f.type = "recipes:removed"
  /\ \E u \in DOMAIN sessions[op.sid].votes : op.arg[1] \in DOMAIN sessions[op.sid].votes[u]

\* C38: the disconnect handler is idempotent per connection. When the error
\* callback of a connection has run and its close callback follows, the second
\* invocation leaves sessions, clients and userConnections as they are and
\* sends nothing, so no second session:participant:disconnected event goes out.
C38_SecondDisconnectSilent ==
  [][ (op'.type = "disconnect" /\ readyState[op'.conn] = "CLOSING") =>
        /\ sent' = {}
        /\ sessions' = sessions
        /\ clients' = clients
        /\ userConnections' = userConnections ]_vars

\* The close callback has followed the error callback of a connection whose
\* user is a disconnected participant of a session in which another member is
\* registered on an open connection, and nothing was sent.
C38_Witness ==
  /\ op.type = "disconnect"
  /\ op.arg = <<"CLOSING">>
  /\ sent = {}
  /\ \E s \in DOMAIN sessions :
        /\ \E i \in 1..Len(sessions[s].participants) :
              ~sessions[s].participants[i].isConnected
        /\ \E c \in DOMAIN clients :
              /\ c # op.conn
              /\ clients[c].sessionId = s
              /\ readyState[c] = "OPEN"

\* The messages passed to send so far, in the order of the calls
Passed == [k \in 1..calls |-> k]

\* C39: in the client connection manager no message is dropped or duplicated
\* and the order of the send calls is kept: the messages the socket took,
\* followed by the queue, are at every moment the messages passed to send in
\* the order they were passed.  A message passed to send while the socket is
\* not open goes to the end of the queue and is not transmitted, and the open
\* callback transmits the whole queue, oldest first, behind what was
\* transmitted before, and leaves the queue empty.
C39_QueueFlushedInOrder ==
  /\ [](transmitted \o manager.messageQueue = Passed)
  /\ [][ /\ (clientOp'.type = "send" /\ manager.ws # "OPEN") =>
              /\ manager'.messageQueue = Append(manager.messageQueue, calls')
              /\ transmitted' = transmitted
         /\ clientOp'.type = "open" =>
              /\ transmitted' = transmitted \o manager.messageQueue
              /\ manager'.messageQueue = << >> ]_vars

\* A reopened socket has just taken two queued messages behind a message
\* that was transmitted while an earlier socket was open
C39_Witness ==
  /\ clientOp.type = "open"
  /\ clientOp.flushed >= 2
  /\ Len(transmitted) > clientOp.flushed
  /\ manager.messageQueue = << >>

\* ------------------------------------------------------------ specifications
\* The ids a client can name: those the server has issued, and one it never issues
KnownIds == 0..(nextUuid - 1)

IssuedIds == 1..(nextUuid - 1)

\* The display name a user sends with session:create and session:join
UsernameOf(u) == IF u = "U1" THEN "Alice" ELSE "Bob"

SessionCommands(ws) ==
  \/ HandleConnection(ws)
  \/ \E s \in SessionIds, u \in Users : HandleSessionCreate(ws, s, u, UsernameOf(u))
  \/ \E s \in SessionIds, u \in Users : HandleSessionJoin(ws, s, u, UsernameOf(u))
  \/ HandleDisconnection(ws)

HostCommands(ws) ==
  \/ \E x \in Contexts : HandleContextUpdate(ws, x)
  \/ \E u \in Users : HandleHostTransfer(ws, u)
  \/ \E a \in BOOLEAN : HandleHostPermissions(ws, a)
  \/ HandleSessionEnd(ws)

IngredientCommands(ws) ==
  \/ \E n \in RawNames, u \in Users :
       nextUuid <= MaxIngredientUuid /\ HandleIngredientsAdd(ws, n, u)
  \/ \E i \in KnownIds : HandleIngredientsRemove(ws, i)
  \/ \E n \in RawNames, f \in BOOLEAN : HandleIngredientsBlacklist(ws, n, f)

RecipeCommands(ws) ==
  \/ \E t \in Titles : nextUuid <= MaxRecipeUuid /\
       \E r \in {RecipeBody(t), ForgedRecipe(t)} : HandleRecipesAdd(ws, r)
  \/ \E i \in IssuedIds, v \in VoteTypes : HandleRecipesVote(ws, i, v)
  \/ \E i \in KnownIds : HandleRecipesRemove(ws, i)

\* Every handler on one connection: U1 creates, U2 joins, one value of each
\* argument and MaxUuid document items
AllCommands(ws) ==
  \/ HandleConnection(ws)
  \/ \E s \in SessionIds : HandleSessionCreate(ws, s, "U1", UsernameOf("U1"))
  \/ \E s \in SessionIds : HandleSessionJoin(ws, s, "U2", UsernameOf("U2"))
  \/ HandleDisconnection(ws)
  \/ HandleContextUpdate(ws, "dessert")
  \/ \E u \in Users : HandleHostTransfer(ws, u)
  \/ HandleHostPermissions(ws, FALSE)
  \/ HandleSessionEnd(ws)
  \/ nextUuid <= MaxUuid /\ HandleIngredientsAdd(ws, "salt", "U1")
  \/ \E i \in IssuedIds : HandleIngredientsRemove(ws, i)
  \/ HandleIngredientsBlacklist(ws, "salt", TRUE)
  \/ nextUuid <= MaxUuid /\ HandleRecipesAdd(ws, RecipeBody("soup"))
  \/ \E i \in IssuedIds : HandleRecipesVote(ws, i, "up")
  \/ \E i \in IssuedIds : HandleRecipesRemove(ws, i)

\* Every handler, the reaper and the clock
Next ==
  \/ AllCommands(1)
  \/ CleanupExpiredSessions
  \/ Tick

Spec == Init /\ [][Next]_vars

\* The session and host commands of NumConns connections, the clock standing still
NextHub == \E ws \in Conns : SessionCommands(ws) \/ HostCommands(ws)

SpecHub == Init /\ [][NextHub]_vars

\* A session that U1 created on connection 1 and U2 joined on connection 2
InitJoined ==
  /\ ManagerInit
  /\ now = 0
  /\ sessions = addParticipant(createSession(EmptyMap, "S", "U1", UsernameOf("U1")),
                               "S", "U2", UsernameOf("U2"))
  /\ clients = [ws \in {1, 2} |->
                  IF ws = 1
                  THEN [userId |-> "U1", sessionId |-> "S", username |-> UsernameOf("U1")]
                  ELSE [userId |-> "U2", sessionId |-> "S", username |-> UsernameOf("U2")]]
  /\ userConnections = [u \in Users |-> IF u = "U1" THEN 1 ELSE 2]
  /\ readyState = [c \in Conns |-> IF c \in {1, 2} THEN "OPEN" ELSE "CLOSED"]
  /\ nextUuid = 1
  /\ sent = { Frame(2, "session:joined", "S", NoUser, "", << sessions["S"] >>),
              Frame(1, "session:participant:joined", "S", "U2", "", << >>) }
  /\ op = Op("session:join", 2, "S", <<"U2">>)

NextIngredients == \E ws \in {1, 2} : IngredientCommands(ws)

SpecIngredients == InitJoined /\ [][NextIngredients]_vars

NextRecipes == \E ws \in {1, 2} : RecipeCommands(ws)

SpecRecipes == InitJoined /\ [][NextRecipes]_vars

\* The ingredient commands of the two members, the clock advancing
NextIngredientsClock == (\E ws \in {1, 2} : IngredientCommands(ws)) \/ Tick

SpecIngredientsClock == InitJoined /\ [][NextIngredientsClock]_vars

\* The recipe commands of the two members with handleRecipesVote run in its
\* two parts, their disconnects, the reaper and the clock: a callback starts
\* only when no handler is part-way through
NextSteps ==
  \/ \E ws \in {1, 2}, i \in IssuedIds, v \in VoteTypes : Idle /\ VoteRecord(ws, i, v)
  \/ VoteRecompute
  \/ \E ws \in {1, 2}, t \in Titles :
       Idle /\ nextUuid <= MaxUuid /\ HandleRecipesAdd(ws, RecipeBody(t))
  \/ \E ws \in {1, 2}, i \in IssuedIds : Idle /\ HandleRecipesRemove(ws, i)
  \/ \E ws \in {1, 2} : Idle /\ HandleDisconnection(ws)
  \/ Idle /\ CleanupExpiredSessions
  \/ Idle /\ Tick

SpecSteps == InitJoined /\ [][NextSteps]_vars

\* Two sessions: U1 creates S and U2 creates T, either user joins either, the
\* connections come and go, and the members add an ingredient and update the
\* context
Rooms == {"S", "T"}

HostOf(s) == IF s = "S" THEN "U1" ELSE "U2"

NextRooms ==
  \E ws \in Conns :
     \/ HandleConnection(ws)
     \/ \E s \in Rooms : HandleSessionCreate(ws, s, HostOf(s), UsernameOf(HostOf(s)))
     \/ \E s \in Rooms, u \in Users : HandleSessionJoin(ws, s, u, UsernameOf(u))
     \/ HandleDisconnection(ws)
     \/ nextUuid <= MaxUuid /\ HandleIngredientsAdd(ws, "Flour", "U1")
     \/ HandleContextUpdate(ws, "dessert")

SpecRooms == Init /\ [][NextRooms]_vars

\* The session commands of one connection, the reaper and the clock; the clock
\* advances and the reaper's timer fires
NextLive ==
  \/ SessionCommands(1)
  \/ CleanupExpiredSessions
  \/ Tick

SpecLive ==
  Init /\ [][NextLive]_vars /\ WF_vars(Tick) /\ WF_vars(CleanupExpiredSessions)

\* The session commands of every connection, with frames that are no commands
\* among them
NextFrames ==
  \E ws \in Conns :
     \/ SessionCommands(ws)
     \/ \E data \in BadFrames : HandleBadFrame(ws, data)
     \/ nextUuid <= MaxUuid /\ \E n \in RawNames : HandleIngredientsAdd(ws, n, "U1")

SpecFrames == Init /\ [][NextFrames]_vars

\* The session commands of every connection and an ingredient of theirs, the
\* clock advancing and the reaper sweeping
NextExpiry ==
  \/ \E ws \in Conns :
        \/ SessionCommands(ws)
        \/ nextUuid <= MaxUuid /\ HandleIngredientsAdd(ws, "salt", "U1")
  \/ CleanupExpiredSessions
  \/ Tick

SpecExpiry == Init /\ [][NextExpiry]_vars

\* Connections that open, create and join sessions, fail and close: the error
\* callback of a connection may run before its close callback.
NextCallbacks ==
  \E ws \in Conns :
     \/ SessionCommands(ws)
     \/ HandleError(ws)

SpecCallbacks == Init /\ [][NextCallbacks]_vars

\* The browser's manager over the life of a page: send calls, the socket
\* opening, closing and being replaced by the reconnect timer, and disconnect
NextClient ==
  \/ Send
  \/ HandleOpen
  \/ SocketClosing
  \/ \E code \in CloseCodes : HandleClose(code)
  \/ ReconnectTimer
  \/ Disconnect

SpecClient == Init /\ [][NextClient]_vars

====
